---- MODULE Spec2Model ----
(***************************************************************************)
(* bharat-courts: the rate-limited transport (http.py), the HC Services    *)
(* session/CAPTCHA protocol (hcservices/client.py, hcservices/parser.py)   *)
(* and the judgment-search protocol (judgments/client.py); further the     *)
(* court registry (courts.py), the Supreme Court date range                *)
(* (sci/client.py), the portal clients' scope over their transport, and    *)
(* the judgments command of cli.py.                                        *)
(*                                                                         *)
(* A response text is a sequence of tokens.  A JSON string literal is one  *)
(* token, written with its quotes; punctuation, whitespace and the         *)
(* byte-order mark are tokens of their own.                                *)
(***************************************************************************)
EXTENDS Integers, Sequences, FiniteSets, TLC

\* ------------------------------------------------------------------ bounds
MaxRetriesCfg == 3   \* largest configured BharatCourtsConfig.max_retries tried
MaxSessions == 2     \* session identifiers the portal issues in one run
MaxCalls == 2        \* protocol operations awaited one after the other
MaxCloses == 3       \* calls of RateLimitedClient.close in one run
KMaxSessions == 3    \* session identifiers the portal issues to two concurrent calls
MaxEntries == 2      \* entries of a fillHCBench / fillCaseType listing
MaxCopies == 1       \* lists the caller obtains from list_high_courts / list_all_courts
MaxEdits == 2        \* changes the caller makes to the lists it holds
MaxTotalCount == 12  \* SearchResult.total_count
MaxPageSize == 5     \* SearchResult.page_size
MaxYear == 2024      \* search_by_year is applied to MaxYear - 1 and MaxYear
MaxDelay == 3        \* request_delay is configured to 1..MaxDelay seconds
MaxTime == 6         \* the clock of concurrent requests stops at MaxTime seconds

\* --------------------------------------------------------------- constants
CaptchaMaxRetries == 3       \* _post_with_captcha_retry(max_retries=3)
MaxCaptchaAttempts == 3      \* search(max_captcha_attempts=3)

\* ------------------------------------------------------------------ tokens
WS == " "
BOM == "BOM"
QCon == "\"con\""
QError == "\"Error\""
QTot == "\"totRecords\""
QInvalid == "\"Invalid Captcha\""
QInvalidLower == "\"invalid captcha\""
QEmpty == "\"\""
QErrorVal == "\"ERROR_VAL\""
QErrorTable == "\"<table> missing\""
QZero == "\"0\""
QTwo == "\"2\""
QInner == "\"[{r1},{r2}]\""
QStatus == "\"captcha_status\""
QY == "\"Y\""
QN == "\"N\""
QAppToken == "\"app_token\""
QTokA == "\"tokA\""
QTokB == "\"tokB\""
QAbc == "\"abc\""
Null == "null"
TableTag == "<table>"
Row4 == "<tr><td*4>"
Row7 == "<tr><td*7>"
Row3 == "<tr><td*3>"
RowPdf == "<tr><td*3><a href=j.pdf>"

\* JSON string literals among the tokens
StrToks ==
  {QCon, QError, QTot, QInvalid, QInvalidLower, QEmpty, QErrorVal,
   QErrorTable, QZero, QTwo, QInner, QStatus, QY, QN, QAppToken, QTokA, QTokB, QAbc}

\* the content of a string literal is falsy in Python (the empty string)
IsEmptyStr(tok) == tok = QEmpty

\* "captcha" in s.lower(), for the content s of a string literal
LowerHasCaptcha(tok) == tok \in {QInvalid, QInvalidLower}

\* "<table" in tok.lower(), for any token
LowerHasTable(tok) == tok \in {TableTag, QErrorTable}

\* ------------------------------------------------------------ text helpers
Last(s) == s[Len(s)]

RECURSIVE LStrip(_, _)
LStrip(text, toks) ==
  IF text # <<>> /\ Head(text) \in toks THEN LStrip(Tail(text), toks) ELSE text

RECURSIVE RStrip(_, _)
RStrip(text, toks) ==
  IF text # <<>> /\ Last(text) \in toks
  THEN RStrip(SubSeq(text, 1, Len(text) - 1), toks) ELSE text

\* str.strip(): whitespace off both ends
Strip(text) == RStrip(LStrip(text, {WS}), {WS})

\* pat in text
Contains(text, pat) ==
  \E i \in 1..(Len(text) - Len(pat) + 1) : SubSeq(text, i, i + Len(pat) - 1) = pat

StartsWith(text, tok) == text # <<>> /\ Head(text) = tok

\* ---------------------------------------------------------- json.loads
\* whitespace between JSON tokens is insignificant
NoWs(text) == SelectSeq(text, LAMBDA t : t # WS)

IsScalar(tok) == tok \in StrToks \cup {Null}

\* index of the closing bracket of the list whose first item is at j, 0 if malformed
RECURSIVE ListEnd(_, _)
ListEnd(c, j) ==
  IF j + 1 > Len(c) \/ ~IsScalar(c[j]) THEN 0
  ELSE IF c[j + 1] = "]" THEN j + 1
  ELSE IF c[j + 1] = "," THEN ListEnd(c, j + 2)
  ELSE 0

\* index of the last token of the value that starts at i, 0 if malformed
ValueEnd(c, i) ==
  IF i > Len(c) THEN 0
  ELSE IF IsScalar(c[i]) THEN i
  ELSE IF c[i] = "[" THEN
    (IF i + 1 <= Len(c) /\ c[i + 1] = "]" THEN i + 1 ELSE ListEnd(c, i + 1))
  ELSE 0

\* the members of an object from index i up to the closing brace, one record
\* per member with the positions of its value; a first record with key "bad"
\* stands for a malformed text
BadMembers == <<[key |-> "bad", from |-> 0, to |-> 0]>>

RECURSIVE Members(_, _)
Members(c, i) ==
  IF i + 2 > Len(c) \/ c[i] \notin StrToks \/ c[i + 1] # ":" THEN BadMembers
  ELSE LET e == ValueEnd(c, i + 2)
           m == [key |-> c[i], from |-> i + 2, to |-> e]
       IN
    IF e = 0 \/ e + 1 > Len(c) THEN BadMembers
    ELSE IF c[e + 1] = "}" THEN
      (IF e + 1 = Len(c) THEN <<m>> ELSE BadMembers)
    ELSE IF c[e + 1] = "," THEN
      (LET rest == Members(c, e + 2) IN
        IF rest = BadMembers THEN rest ELSE <<m>> \o rest)
    ELSE BadMembers

\* json.loads(text) of an object; BadMembers stands for JSONDecodeError
JsonLoads(text) ==
  LET c == NoWs(text) IN
    IF Len(c) < 2 \/ c[1] # "{" THEN BadMembers
    ELSE IF Len(c) = 2 THEN (IF c[2] = "}" THEN <<>> ELSE BadMembers)
    ELSE Members(c, 2)

\* data.get(key): the tokens of the value, <<>> when the key is absent
\* (the last occurrence of a repeated key wins, as in a Python dict)
JsonGet(text, key) ==
  LET c == NoWs(text)
      m == JsonLoads(text)
      hits == {k \in 1..Len(m) : m[k].key = key}
  IN IF hits = {} THEN <<>>
     ELSE LET k == CHOOSE h \in hits : \A g \in hits : g <= h
          IN SubSeq(c, m[k].from, m[k].to)

IsStrValue(v) == Len(v) = 1 /\ v[1] \in StrToks
IsListValue(v) == Len(v) >= 2 /\ v[1] = "["

\* ------------------------------------------------ hcservices/parser.py
\* a parser's outcome: the records returned, or the exception raised
Returned(items) == [kind |-> "return", exc |-> "", items |-> items]
Raised(exc) == [kind |-> "raise", exc |-> exc, items |-> <<>>]

\* json.loads(inner): the records inside the JSON-encoded string of con[0]
InnerRecords(tok) ==
  IF tok = QInner
  THEN <<[cino |-> "DLHC010582482024", status |-> "Pending"],
         [cino |-> "DLHC010400092024", status |-> "Disposed"]>>
  ELSE <<>>

\* int(data.get("totRecords", 0)) raises for a text that is not a number
TotRecordsRaises(v) == v # <<>> /\ ~(IsStrValue(v) /\ v[1] \in {QZero, QTwo})

\* what int raises: TypeError for None or a list, ValueError for a string
TotRecordsError(v) == IF IsStrValue(v) THEN "ValueError" ELSE "TypeError"

\* a value Python takes for false: absent (the default ""), "", [] or None
Falsy(v) == v \in {<<>>, <<"[", "]">>, <<Null>>} \/ (IsStrValue(v) /\ IsEmptyStr(v[1]))

\* _parse_json_envelope: the records, or the exception raised
ParseJsonEnvelope(raw) ==
  LET text == LStrip(Strip(raw), {BOM}) IN
    IF ~StartsWith(text, "{") THEN Returned(<<>>)
    ELSE IF JsonLoads(text) = BadMembers THEN Raised("JSONDecodeError")
    ELSE LET con == JsonGet(text, QCon)
             err == JsonGet(text, QError)
         IN
      IF IsStrValue(con) /\ LowerHasCaptcha(con[1]) THEN Raised("CaptchaError")
      ELSE IF ~Falsy(err) THEN Raised("ServerError")
      ELSE IF TotRecordsRaises(JsonGet(text, QTot))
        THEN Raised(TotRecordsError(JsonGet(text, QTot)))
      ELSE IF IsListValue(con) /\ Len(con) > 2
        THEN Returned(InnerRecords(con[2]))
      ELSE Returned(<<>>)

\* the rows (tr) of the first table of an HTML text: the row tokens that
\* follow the first token carrying a table tag
TableRows(html) ==
  LET at == {i \in 1..Len(html) : LowerHasTable(html[i])} IN
    IF at = {} THEN <<>>
    ELSE LET first == CHOOSE i \in at : \A j \in at : i <= j
         IN SelectSeq(SubSeq(html, first + 1, Len(html)),
                      LAMBDA t : t \in {Row3, Row4, Row7})

\* number of td cells of a row
Cols(row) == IF row \in {Row3, RowPdf} THEN 3 ELSE IF row = Row4 THEN 4 ELSE 7

CaseInfo(cnr, status) == [cnr_number |-> cnr, status |-> status, court_name |-> ""]

RECURSIVE MapRows(_, _)
MapRows(rows, minCols) ==
  IF rows = <<>> THEN <<>>
  ELSE IF Cols(Head(rows)) < minCols THEN MapRows(Tail(rows), minCols)
  ELSE <<CaseInfo("", IF Cols(Head(rows)) > 6 THEN "Pending" ELSE "")>>
       \o MapRows(Tail(rows), minCols)

\* _parse_case_status_html: skip the header row, drop rows of fewer than 4 cells
ParseCaseStatusHtml(html) ==
  LET rows == TableRows(html) IN
    IF rows = <<>> THEN <<>> ELSE MapRows(Tail(rows), 4)

RECURSIVE MapRecords(_)
MapRecords(recs) ==
  IF recs = <<>> THEN <<>>
  ELSE <<CaseInfo(Head(recs).cino, Head(recs).status)>> \o MapRecords(Tail(recs))

\* parse_case_status
ParseCaseStatus(raw) ==
  IF \E i \in 1..Len(raw) : LowerHasTable(raw[i])
  THEN Returned(ParseCaseStatusHtml(raw))
  ELSE LET env == ParseJsonEnvelope(raw) IN
    IF env.kind = "raise" THEN env ELSE Returned(MapRecords(env.items))

\* parse_orders: rows of fewer than 5 cells are dropped
ParseOrders(html) ==
  LET rows == TableRows(html) IN
    IF rows = <<>> THEN <<>> ELSE MapRows(Tail(rows), 5)

\* parse_cause_list: rows of fewer than 4 cells are dropped
ParseCauseList(html) ==
  LET rows == TableRows(html) IN
    IF rows = <<>> THEN <<>> ELSE MapRows(Tail(rows), 4)

\* ------------------------------------------------------- response bodies
\* texts the portal may answer a submit POST with
BodyInvalid == <<"{", QCon, ":", QInvalid, "}">>
BodyInvalidSpaced == <<BOM, "{", QCon, ":", WS, QInvalid, "}", WS>>
BodyInvalidLower == <<"{", QCon, ":", QInvalidLower, "}">>
BodyErrorVal ==
  <<"{", QCon, ":", "[", "]", ",", QTot, ":", QZero, ",", QError, ":", QErrorVal, "}">>
BodyErrorIsInvalid == <<"{", QCon, ":", QEmpty, ",", QError, ":", QInvalid, "}">>
BodyErrorTable ==
  <<"{", QCon, ":", "[", "]", ",", QTot, ":", QZero, ",", QError, ":", QErrorTable, "}">>
BodyEmpty ==
  <<"{", QCon, ":", "[", "]", ",", QTot, ":", QZero, ",", QError, ":", QEmpty, "}">>
BodyRecords ==
  <<"{", QCon, ":", "[", QInner, "]", ",", QTot, ":", QTwo, ",", QError, ":", QEmpty, "}">>
BodyHtml == <<TableTag, Row4, Row7, Row3, Row4>>

SubmitBodies ==
  {BodyInvalid, BodyInvalidSpaced, BodyInvalidLower, BodyErrorVal,
   BodyErrorIsInvalid, BodyErrorTable, BodyEmpty, BodyRecords, BodyHtml}

\* texts the portal may answer fillHCBench / fillCaseType with, one token per
\* character: "Sel" stands for a word in which lower() finds "select", "nm"
\* for any other word
ListBodyPlain == <<"0", "~", "Sel", "#", "1", "~", "nm", "#">>
ListBodyBom == <<BOM, "1", "~", "nm", "#", "2", "~", BOM, "nm">>
ListBodies == {<<>>, ListBodyPlain, ListBodyBom}

\* texts the portal may answer the validation POST with
VBodyAccept(tok) == <<"{", QStatus, ":", QY, ",", QAppToken, ":", tok, "}">>
VBodyAcceptNoToken == <<"{", QStatus, ":", QY, "}">>
VBodyReject == <<"{", QStatus, ":", QN, ",", QAppToken, ":", QTokB, "}">>
VBodyNotJson == <<"<html>">>
VBodyList == <<"[", "]">>

ValidationBodies ==
  {VBodyAccept(QTokA), VBodyAccept(QTokB), VBodyAcceptNoToken, VBodyReject,
   VBodyNotJson, VBodyList}

\* texts the portal may answer the results GET with
ResultBodies == {<<"<html>">>, <<TableTag, Row7, Row7, Row4>>}

\* texts the solver may return
CaptchaTexts == {"", "test123", "ab12"}

\* HTTP failures of one attempt: those _request catches, and those it does not
RetryableErrors == {"HTTPStatusError", "ConnectError", "ReadTimeout"}
FatalErrors == {"ConnectTimeout"}

\* ------------------------------------------------ hcservices/endpoints.py
HCOps == {"case_status", "case_status_by_party", "court_orders", "cause_list"}

SearchType(o) ==
  CASE o = "case_status" -> "CScaseNumber"
    [] o = "case_status_by_party" -> "CSpartyName"
    [] o = "court_orders" -> "COCaseNumber"
    [] o = "cause_list" -> "CLcauselist"

SubmitUrl(o) == IF o = "cause_list" THEN "INDEX_QRY_URL" ELSE "SHOW_RECORDS_URL"

NoForm == [caseStatusSearchType |-> "", captcha |-> ""]

\* form builders that all send the discriminator of the case-number search
BuildForm_OneDiscriminator(o, text) == [caseStatusSearchType |-> "CScaseNumber", captcha |-> text]

\* case_status_form / case_status_by_party_form / court_orders_form / cause_list_form
BuildForm(o, text) == [caseStatusSearchType |-> SearchType(o), captcha |-> text]

\* ------------------------------------------------------------------ state
VARIABLES
  cfg_max_retries,  \* BharatCourtsConfig.max_retries
  pool,             \* RateLimitedClient._client: "none" or "open"
  jar,              \* the session cookie held by the pool, 0 when none
  srvSeq,           \* the last session identifier the portal issued
  tpc,              \* position inside RateLimitedClient._request
  tattempt,         \* its loop variable attempt
  treq,             \* its arguments
  tresp,            \* the response it returned
  terror,           \* the exception it raised
  last_error,       \* its local last_error
  pc,               \* position inside the protocol operation
  op,               \* the operation being awaited
  court,            \* its court argument (the court's name)
  attempt,          \* loop variable of the challenge loop
  captcha,          \* the text the solver returned
  resp,             \* the text of the accepted response
  outcome,          \* what the operation returned or raised
  calls,            \* operations completed so far
  app_token,        \* JudgmentSearchClient._app_token
  search_text,      \* search(search_text, ...)
  search_opt,       \* search(search_opt=...)
  max_captcha_attempts, \* search(max_captcha_attempts=...)
  acceptTok,        \* history: app_token of the validation response that answered Y
  acceptText,       \* history: captcha text of the validation request it answered
  steps,            \* history: protocol steps started in the current attempt
  solves,           \* history: solver invocations of the current operation
  captchaId,        \* history: the invocation that produced captcha
  submitSolves,     \* history: the invocation behind each submit of the operation
  submits,          \* history: submit responses received by the operation
  rejects,          \* history: those the loop classified as rejections
  carried,          \* history: cookies sent by the HTTP attempts since the latest rejection
  lastCookie,       \* history: cookie sent by the latest HTTP attempt
  rejCookie,        \* history: cookie the latest rejected submit was sent with
  tsent,            \* history: HTTP attempts of the current logical request
  delays,           \* history: request_delay sleeps of the current logical request
  waits,            \* history: seconds of each backoff sleep of the current logical request
  released,         \* history: calls of httpx.AsyncClient.aclose
  closeCalls,       \* history: calls of RateLimitedClient.close
  wire,             \* history: the latest response put on the wire by the portal
  kshared,          \* two concurrent calls: TRUE when both run on one client instance
  kjar,             \* two concurrent calls: the cookie jar of each instance's pool
  ksrv,             \* two concurrent calls: the last session identifier the portal issued
  ktask,            \* two concurrent calls: the frame of each call
  fname,            \* a function applied on its own: its name
  fin,              \* its argument
  fout,             \* its result
  lists,            \* court registry: the list objects, HIGH_COURTS, ALL_COURTS and the copies handed out
  by_code,          \* court registry: the dict _BY_CODE
  held,             \* the list object the caller holds, 0 for none
  gotArg,           \* the argument of the caller's last get_court
  got,              \* what it returned: <<>> for None, otherwise <<the Court object>>
  raised,           \* the exception of the caller's last assignment to a Court field
  edits,            \* history: how often the caller changed a list it holds
  cfg_request_delay, \* BharatCourtsConfig.request_delay, in seconds
  know,             \* concurrent requests: the time, in seconds
  ksent,            \* history: the time of each HTTP attempt of the client
  kapp,             \* concurrent searches: _app_token of each JudgmentSearchClient
  ktok,             \* concurrent searches: the last app_token the portal issued
  portal            \* a portal client on the transport: its class, _owns_http, its scope

tvars == <<pool, jar, srvSeq, tpc, tattempt, treq, tresp, terror, last_error,
           carried, lastCookie, tsent, delays, waits, wire>>
cvars == <<released, closeCalls>>
pvars == <<pc, op, court, attempt, captcha, resp, outcome, calls, steps, solves,
           captchaId, submitSolves, submits, rejects, rejCookie>>
jlocals == <<search_text, search_opt, max_captcha_attempts, acceptTok, acceptText>>
jvars == <<app_token, jlocals>>
kvars == <<kshared, kjar, ksrv, ktask>>
fvars == <<fname, fin, fout>>
rvars == <<lists, by_code, held, gotArg, got, raised, edits>>
xvars == <<cfg_request_delay, know, ksent, kapp, ktok, portal>>
vars == <<cfg_max_retries, cvars, tvars, pvars, jvars, kvars, fvars, rvars, xvars>>

NoResp == [text |-> <<>>, content |-> 0]
NoOutcome == [kind |-> "none", exc |-> "", items |-> <<>>]

\* the locals of _request and of the operation, as they are before a call
FreshLocals ==
  /\ tpc = "idle" /\ tattempt = 0
  /\ treq = [method |-> "", url |-> "", form |-> NoForm]
  /\ tresp = NoResp /\ terror = "" /\ last_error = ""
  /\ op = "" /\ court = "" /\ attempt = 0 /\ captcha = "" /\ resp = <<>>
  /\ outcome = NoOutcome
  /\ steps = <<>> /\ solves = 0 /\ captchaId = 0 /\ submitSolves = <<>>
  /\ submits = 0 /\ rejects = 0
  /\ carried = {} /\ lastCookie = 0 /\ rejCookie = -1
  /\ tsent = 0 /\ wire = NoResp
  /\ delays = 0 /\ waits = <<>>
  /\ search_text = "" /\ search_opt = "" /\ max_captcha_attempts = 0
  /\ acceptTok = "none" /\ acceptText = ""

\* return: the frames of the call are gone
ResetLocals ==
  /\ tpc' = "idle" /\ tattempt' = 0
  /\ treq' = [method |-> "", url |-> "", form |-> NoForm]
  /\ tresp' = NoResp /\ terror' = "" /\ last_error' = ""
  /\ op' = "" /\ court' = "" /\ attempt' = 0 /\ captcha' = "" /\ resp' = <<>>
  /\ outcome' = NoOutcome
  /\ steps' = <<>> /\ solves' = 0 /\ captchaId' = 0 /\ submitSolves' = <<>>
  /\ submits' = 0 /\ rejects' = 0
  /\ carried' = {} /\ lastCookie' = 0 /\ rejCookie' = -1
  /\ tsent' = 0 /\ wire' = NoResp
  /\ delays' = 0 /\ waits' = <<>>
  /\ search_text' = "" /\ search_opt' = "" /\ max_captcha_attempts' = 0
  /\ acceptTok' = "none" /\ acceptText' = ""

\* the two calling tasks and the client instances they may run on
Tasks == {1, 2}
Instances == {1, 2}

\* the frame of a call that has not started
NoSolution == [by |-> 0, sess |-> 0]
NoSubmit == [cookie |-> 0, captcha |-> NoSolution]
IdleTask ==
  [pc |-> "idle", attempt |-> 0, sent |-> 0, init |-> 0, fetched |-> 0,
   captcha |-> NoSolution, submit |-> NoSubmit, outcome |-> "none"]

\* a client after construction: no pool, no call under way
NewClient ==
  /\ pool = "none" /\ jar = 0 /\ srvSeq = 0
  /\ released = 0 /\ closeCalls = 0
  /\ pc = "idle" /\ calls = 0 /\ app_token = ""
  /\ FreshLocals

\* no concurrent calls
NoTasks ==
  /\ kshared = FALSE /\ kjar = [i \in Instances |-> 0] /\ ksrv = 0
  /\ ktask = [t \in Tasks |-> IdleTask]

\* no function applied on its own
NoFunction == fname = "" /\ fin = <<>> /\ fout = NoOutcome

\* the caller has done nothing with the court registry
NoCaller == held = 0 /\ gotArg = <<>> /\ got = <<>> /\ raised = "" /\ edits = 0

\* bharat_courts.courts is not imported
NoRegistry == lists = <<>> /\ by_code = <<>> /\ NoCaller

\* no portal client has been constructed on the transport
NoPortal == [class |-> "", owns_http |-> FALSE, scope |-> "none"]

\* the default request delay, no clock running, no concurrent searches, no
\* portal client
NoMore ==
  /\ cfg_request_delay = 1 /\ know = 0 /\ ksent = <<>>
  /\ kapp = [i \in Instances |-> 0] /\ ktok = 0
  /\ portal = NoPortal

Init ==
  /\ cfg_max_retries \in 0..MaxRetriesCfg
  /\ NewClient
  /\ NoTasks
  /\ NoFunction
  /\ NoRegistry
  /\ NoMore

\* ------------------------------------------------------------- http.py
\* an _ensure_client that creates a pool only while none was ever closed
EnsureClient_CreatesOnce ==
  /\ pool' = IF released = 0 THEN "open" ELSE pool
  /\ jar' = IF pool = "open" THEN jar ELSE 0

\* _ensure_client: a new pool starts with an empty cookie jar
EnsureClient ==
  /\ pool' = "open"
  /\ jar' = IF pool = "open" THEN jar ELSE 0

\* get / post: enter _request up to its first suspension, the request delay
Request(method, url, form) ==
  /\ EnsureClient
  /\ treq' = [method |-> method, url |-> url, form |-> form]
  /\ tpc' = "sleep"
  /\ tattempt' = 0 /\ last_error' = "" /\ tsent' = 0
  /\ delays' = 1 /\ waits' = <<>>
  /\ UNCHANGED <<srvSeq, tresp, terror, lastCookie, wire>>

\* the request delay is over: enter the loop, or fall through it
AfterDelay ==
  /\ tpc = "sleep"
  /\ IF tattempt < cfg_max_retries
     THEN tpc' = "request" /\ terror' = terror
     ELSE tpc' = "raised" /\ terror' = "RuntimeError"
  /\ UNCHANGED <<cfg_max_retries, cvars, kvars, fvars, rvars, xvars, jvars, pool, jar, srvSeq, tattempt, treq, tresp,
                 last_error, carried, lastCookie, tsent, delays, waits, wire, pvars>>

\* the cookie the portal sets when it answers url to a request carrying cookie c
SetCookies(url, c) ==
  IF url # "MAIN_PAGE_URL" THEN {c}
  ELSE IF c = 0 THEN {srvSeq + 1}
  ELSE {c} \cup (IF srvSeq < MaxSessions THEN {srvSeq + 1} ELSE {})

\* the responses the portal may give url to a request carrying cookie c
Responses(url, c) ==
  CASE url = "MAIN_PAGE_URL" -> {[text |-> <<"<html>">>, content |-> 0]}
    [] url = "CAPTCHA_IMAGE_URL" -> {[text |-> <<>>, content |-> c]}
    [] url = "CHECK_CAPTCHA_URL" -> {[text |-> b, content |-> 0] : b \in ValidationBodies}
    [] url = "SEARCH_RESULTS_URL" -> {[text |-> b, content |-> 0] : b \in ResultBodies}
    [] url = "FILL_CASE_TYPE_URL" -> {[text |-> b, content |-> 0] : b \in ListBodies}
    [] url = "INDEX_QRY_URL" ->
         {[text |-> b, content |-> 0] : b \in SubmitBodies \cup ListBodies}
    [] OTHER -> {[text |-> b, content |-> 0] : b \in SubmitBodies}

\* history of one HTTP attempt
Sent ==
  /\ tsent' = tsent + 1
  /\ carried' = carried \cup {jar}
  /\ lastCookie' = jar

\* a loop that keeps the response of an earlier call instead of this attempt's
HttpOk_StaleResponse ==
  /\ tpc = "request"
  /\ Sent
  /\ \E r \in Responses(treq.url, jar), c \in SetCookies(treq.url, jar) :
       /\ wire' = r
       /\ tresp' = IF tattempt = 0 THEN r ELSE tresp
       /\ jar' = c
       /\ srvSeq' = IF c > srvSeq THEN c ELSE srvSeq
  /\ tpc' = "returned"
  /\ UNCHANGED <<cfg_max_retries, cvars, kvars, fvars, rvars, xvars, jvars, pool, tattempt, treq, terror, last_error,
                 delays, waits, pvars>>

\* client.request succeeds and raise_for_status passes: return resp
HttpOk ==
  /\ tpc = "request"
  /\ Sent
  /\ \E r \in Responses(treq.url, jar), c \in SetCookies(treq.url, jar) :
       /\ wire' = r
       /\ tresp' = r
       /\ jar' = c
       /\ srvSeq' = IF c > srvSeq THEN c ELSE srvSeq
  /\ tpc' = "returned"
  /\ UNCHANGED <<cfg_max_retries, cvars, kvars, fvars, rvars, xvars, jvars, pool, tattempt, treq, terror, last_error,
                 delays, waits, pvars>>

\* a loop that gives up one attempt before the configured number
HttpRetryableFail_GivesUpEarly ==
  /\ tpc = "request"
  /\ Sent
  /\ \E e \in RetryableErrors :
       /\ last_error' = e
       /\ IF tattempt >= cfg_max_retries - 2
          THEN tpc' = "raised" /\ terror' = e /\ waits' = waits
          ELSE /\ tpc' = "backoff" /\ terror' = terror
               /\ waits' = Append(waits, (tattempt + 1) * 2)
  /\ UNCHANGED <<cfg_max_retries, cvars, kvars, fvars, rvars, xvars, jvars, pool, jar, srvSeq, tattempt, treq, tresp, wire,
                 delays, pvars>>

\* a backoff computed from the zero-based loop index
HttpRetryableFail_ZeroBasedWait ==
  /\ tpc = "request"
  /\ Sent
  /\ \E e \in RetryableErrors :
       /\ last_error' = e
       /\ IF tattempt = cfg_max_retries - 1
          THEN tpc' = "raised" /\ terror' = e /\ waits' = waits
          ELSE /\ tpc' = "backoff" /\ terror' = terror
               /\ waits' = Append(waits, tattempt * 2)
  /\ UNCHANGED <<cfg_max_retries, cvars, kvars, fvars, rvars, xvars, jvars, pool, jar, srvSeq, tattempt, treq, tresp, wire,
                 delays, pvars>>

\* a caught failure: re-raise on the last attempt, else back off
HttpRetryableFail ==
  /\ tpc = "request"
  /\ Sent
  /\ \E e \in RetryableErrors :
       /\ last_error' = e
       /\ IF tattempt = cfg_max_retries - 1
          THEN tpc' = "raised" /\ terror' = e /\ waits' = waits
          ELSE /\ tpc' = "backoff" /\ terror' = terror
               /\ waits' = Append(waits, (tattempt + 1) * 2)
  /\ UNCHANGED <<cfg_max_retries, cvars, kvars, fvars, rvars, xvars, jvars, pool, jar, srvSeq, tattempt, treq, tresp, wire,
                 delays, pvars>>

\* a failure the except clause does not name leaves _request at once
HttpFatalFail ==
  /\ tpc = "request"
  /\ Sent
  /\ \E e \in FatalErrors : terror' = e
  /\ tpc' = "raised"
  /\ UNCHANGED <<cfg_max_retries, cvars, kvars, fvars, rvars, xvars, jvars, pool, jar, srvSeq, tattempt, treq, tresp,
                 last_error, wire, delays, waits, pvars>>

\* a retry that sleeps request_delay again before its attempt
AfterBackoff_DelaysAgain ==
  /\ tpc = "backoff"
  /\ tattempt' = tattempt + 1
  /\ tattempt + 1 < cfg_max_retries
  /\ tpc' = "sleep" /\ terror' = terror
  /\ delays' = delays + 1
  /\ UNCHANGED <<cfg_max_retries, cvars, kvars, fvars, rvars, xvars, jvars, pool, jar, srvSeq, treq, tresp, last_error,
                 carried, lastCookie, tsent, waits, wire, pvars>>

\* the backoff sleep is over: next iteration of the loop (the last attempt
\* re-raises instead of sleeping, so range(max_retries) has a next value)
AfterBackoff ==
  /\ tpc = "backoff"
  /\ tattempt' = tattempt + 1
  /\ tattempt + 1 < cfg_max_retries
  /\ tpc' = "request" /\ terror' = terror
  /\ UNCHANGED <<cfg_max_retries, cvars, kvars, fvars, rvars, xvars, jvars, pool, jar, srvSeq, treq, tresp, last_error,
                 carried, lastCookie, tsent, delays, waits, wire, pvars>>

\* ------------------------------------------------- hcservices/client.py
Courts == {"Delhi High Court", "Bombay High Court"}

\* the quick check of _post_with_captcha_retry on resp.text
InvalidCaptchaMarker(raw) ==
  LET text == LStrip(Strip(raw), {BOM}) IN
    \/ Contains(text, <<QInvalid>>)
    \/ Contains(text, <<QCon, ":", QInvalid>>)

\* an operation that returns the parsed records as they are
SetCourtName_Unfilled(items, name) ==
  items

RECURSIVE SetCourtName(_, _)
SetCourtName(items, name) ==
  IF items = <<>> THEN <<>>
  ELSE <<[Head(items) EXCEPT !.court_name = name]>> \o SetCourtName(Tail(items), name)

\* parse_case_status on each text the portal may answer with, computed once
CaseStatusOf == [b \in SubmitBodies |-> ParseCaseStatus(b)]

\* what the operation does with the response _post_with_captcha_retry returned
HCResult(o, c, text) ==
  CASE o \in {"case_status", "case_status_by_party"} ->
         (IF CaseStatusOf[text].kind = "raise" THEN CaseStatusOf[text]
          ELSE Returned(SetCourtName(CaseStatusOf[text].items, c)))
    [] o = "court_orders" -> Returned(ParseOrders(text))
    [] o = "cause_list" -> Returned(ParseCauseList(text))

\* the caller awaits one of the four challenge-gated operations
HCCall ==
  /\ pc = "idle" /\ calls < MaxCalls
  /\ \E o \in HCOps, c \in Courts : op' = o /\ court' = c
  /\ pc' = "loop"
  /\ UNCHANGED <<cfg_max_retries, cvars, kvars, fvars, rvars, xvars, jvars, tvars, attempt, captcha, resp, outcome, calls,
                 steps, solves, captchaId, submitSolves, submits, rejects, rejCookie>>

\* for attempt in range(max_retries): await self._init_session()
HCAttemptStart ==
  /\ pc = "loop" /\ attempt < CaptchaMaxRetries
  /\ Request("GET", "MAIN_PAGE_URL", NoForm)
  /\ pc' = "init_session"
  /\ steps' = <<"init">>
  /\ UNCHANGED <<cfg_max_retries, cvars, kvars, fvars, rvars, xvars, jvars, carried, op, court, attempt, captcha, resp, outcome, calls,
                 solves, captchaId, submitSolves, submits, rejects, rejCookie>>

\* a loop that hands back an empty result when it is exhausted
HCExhausted_ReturnsEmpty ==
  /\ pc = "loop" /\ attempt >= CaptchaMaxRetries
  /\ outcome' = Returned(<<>>)
  /\ pc' = "done"
  /\ UNCHANGED <<cfg_max_retries, cvars, kvars, fvars, rvars, xvars, jvars, tvars, op, court, attempt, captcha, resp, calls,
                 steps, solves, captchaId, submitSolves, submits, rejects, rejCookie>>

\* the loop is exhausted: raise CaptchaError
HCExhausted ==
  /\ pc = "loop" /\ attempt >= CaptchaMaxRetries
  /\ outcome' = Raised("CaptchaError")
  /\ pc' = "done"
  /\ UNCHANGED <<cfg_max_retries, cvars, kvars, fvars, rvars, xvars, jvars, tvars, op, court, attempt, captcha, resp, calls,
                 steps, solves, captchaId, submitSolves, submits, rejects, rejCookie>>

\* _init_session returned; _solve_captcha fetches the challenge image
HCFetchCaptcha ==
  /\ pc = "init_session" /\ tpc = "returned"
  /\ Request("GET", "CAPTCHA_IMAGE_URL", NoForm)
  /\ pc' = "captcha_get"
  /\ steps' = Append(steps, "captcha")
  /\ UNCHANGED <<cfg_max_retries, cvars, kvars, fvars, rvars, xvars, jvars, carried, op, court, attempt, captcha, resp, outcome,
                 calls, solves, captchaId, submitSolves, submits, rejects, rejCookie>>

\* the image arrived; _solve_captcha awaits the solver
HCSolveStart ==
  /\ pc = "captcha_get" /\ tpc = "returned"
  /\ pc' = "solve" /\ tpc' = "idle"
  /\ steps' = Append(steps, "solve")
  /\ solves' = solves + 1
  /\ UNCHANGED <<cfg_max_retries, cvars, kvars, fvars, rvars, xvars, jvars, pool, jar, srvSeq, tattempt, treq, tresp, terror,
                 last_error, carried, lastCookie, tsent, delays, waits, wire, op, court, attempt,
                 captcha, resp, outcome, calls, captchaId, submitSolves, submits,
                 rejects, rejCookie>>

\* the solver returned: build the form and POST it
HCSubmit ==
  /\ pc = "solve"
  /\ \E text \in CaptchaTexts :
       /\ captcha' = text
       /\ Request("POST", SubmitUrl(op), BuildForm(op, text))
  /\ captchaId' = solves
  /\ submitSolves' = Append(submitSolves, solves)
  /\ pc' = "post"
  /\ steps' = Append(steps, "post")
  /\ UNCHANGED <<cfg_max_retries, cvars, kvars, fvars, rvars, xvars, jvars, carried, op, court, attempt, resp, outcome, calls,
                 solves, submits, rejects, rejCookie>>

\* a retry that posts again on the session and challenge it already has
HCRejected_SameChallenge ==
  /\ pc = "post" /\ tpc = "returned"
  /\ InvalidCaptchaMarker(tresp.text)
  /\ attempt' = attempt + 1
  /\ pc' = IF attempt + 1 < CaptchaMaxRetries THEN "solve" ELSE "loop"
  /\ tpc' = "idle"
  /\ submits' = submits + 1 /\ rejects' = rejects + 1
  /\ rejCookie' = lastCookie /\ carried' = {}
  /\ UNCHANGED <<cfg_max_retries, cvars, kvars, fvars, rvars, xvars, jvars, pool, jar, srvSeq, tattempt, treq, tresp, terror,
                 last_error, lastCookie, tsent, delays, waits, wire, op, court, captcha,
                 resp, outcome, calls, steps, solves, captchaId, submitSolves>>

\* the response carries the marker: continue with the next attempt
HCRejected ==
  /\ pc = "post" /\ tpc = "returned"
  /\ InvalidCaptchaMarker(tresp.text)
  /\ attempt' = attempt + 1
  /\ pc' = "loop" /\ tpc' = "idle"
  /\ submits' = submits + 1 /\ rejects' = rejects + 1
  /\ rejCookie' = lastCookie /\ carried' = {}
  /\ UNCHANGED <<cfg_max_retries, cvars, kvars, fvars, rvars, xvars, jvars, pool, jar, srvSeq, tattempt, treq, tresp, terror,
                 last_error, lastCookie, tsent, delays, waits, wire, op, court, captcha,
                 resp, outcome, calls, steps, solves, captchaId, submitSolves>>

\* no marker: return resp to the operation
HCAccepted ==
  /\ pc = "post" /\ tpc = "returned"
  /\ ~InvalidCaptchaMarker(tresp.text)
  /\ resp' = tresp.text
  /\ pc' = "parse" /\ tpc' = "idle"
  /\ submits' = submits + 1
  /\ UNCHANGED <<cfg_max_retries, cvars, kvars, fvars, rvars, xvars, jvars, pool, jar, srvSeq, tattempt, treq, tresp, terror,
                 last_error, carried, lastCookie, tsent, delays, waits, wire, op, court, attempt,
                 captcha, outcome, calls, steps, solves, captchaId, submitSolves,
                 rejects, rejCookie>>

\* parse the accepted response and return, or let the parser's exception out
HCParse ==
  /\ pc = "parse"
  /\ outcome' = HCResult(op, court, resp)
  /\ pc' = "done"
  /\ UNCHANGED <<cfg_max_retries, cvars, kvars, fvars, rvars, xvars, jvars, tvars, op, court, attempt, captcha, resp, calls,
                 steps, solves, captchaId, submitSolves, submits, rejects, rejCookie>>

\* a loop that swallows the transport's exception and tries the challenge again
HCTransportError_Retries ==
  /\ pc \in {"init_session", "captcha_get", "post"} /\ tpc = "raised"
  /\ attempt' = attempt + 1
  /\ pc' = "loop" /\ tpc' = "idle"
  /\ UNCHANGED <<cfg_max_retries, cvars, kvars, fvars, rvars, xvars, jvars, pool, jar, srvSeq, tattempt, treq, tresp, terror,
                 last_error, carried, lastCookie, tsent, delays, waits, wire, op, court, outcome,
                 captcha, resp, calls, steps, solves, captchaId, submitSolves,
                 submits, rejects, rejCookie>>

\* an exception of the transport passes through the loop to the caller
HCTransportError ==
  /\ pc \in {"init_session", "captcha_get", "post"} /\ tpc = "raised"
  /\ outcome' = Raised(terror)
  /\ pc' = "done" /\ tpc' = "idle"
  /\ UNCHANGED <<cfg_max_retries, cvars, kvars, fvars, rvars, xvars, jvars, pool, jar, srvSeq, tattempt, treq, tresp, terror,
                 last_error, carried, lastCookie, tsent, delays, waits, wire, op, court, attempt,
                 captcha, resp, calls, steps, solves, captchaId, submitSolves,
                 submits, rejects, rejCookie>>

\* text.split(sep): the segments between the occurrences of sep
RECURSIVE SplitOn(_, _)
SplitOn(text, sep) ==
  LET at == {i \in 1..Len(text) : text[i] = sep} IN
    IF at = {} THEN <<text>>
    ELSE LET first == CHOOSE i \in at : \A j \in at : i <= j
         IN <<SubSeq(text, 1, first - 1)>>
            \o SplitOn(SubSeq(text, first + 1, Len(text)), sep)

\* s.strip("﻿")
StripBom(text) == RStrip(LStrip(text, {BOM}), {BOM})

\* d[code] = name on a dict kept as the sequence of its items
DictPut(dict, code, name) ==
  IF \E i \in DOMAIN dict : dict[i].code = code
  THEN [i \in DOMAIN dict |->
          IF dict[i].code = code THEN [code |-> code, name |-> name] ELSE dict[i]]
  ELSE Append(dict, [code |-> code, name |-> name])

\* a test that lets the zero sentinel through
KeepEntry_ZeroKept(code, name) ==
  /\ code # <<>>
  /\ name # <<>> /\ \A i \in DOMAIN name : name[i] # "Sel"

\* the test both loops apply to a code and a name
KeepEntry(code, name) ==
  /\ code # <<>> /\ code # <<"0">>
  /\ name # <<>> /\ \A i \in DOMAIN name : name[i] # "Sel"

\* the loops of list_benches ("benches") and list_case_types ("case_types")
\* over the entries of the response text
RECURSIVE ParseEntries(_, _, _)
ParseEntries(which, entries, dict) ==
  IF entries = <<>> THEN dict
  ELSE LET entry == IF which = "benches" THEN Strip(Head(entries))
                    ELSE StripBom(Strip(Head(entries)))
           parts == SplitOn(entry, "~")
           tilde == Len(parts) > 1
           rest == IF tilde THEN SubSeq(entry, Len(parts[1]) + 2, Len(entry)) ELSE <<>>
           code == IF which = "benches" THEN StripBom(Strip(parts[1])) ELSE Strip(parts[1])
           name == IF which = "benches" THEN StripBom(Strip(rest)) ELSE Strip(rest)
       IN ParseEntries(which, Tail(entries),
                       IF tilde /\ KeepEntry(code, name) THEN DictPut(dict, code, name)
                       ELSE dict)

ParseBenches(text) == ParseEntries("benches", SplitOn(text, "#"), <<>>)
ParseCaseTypes(text) == ParseEntries("case_types", SplitOn(text, "#"), <<>>)

\* both loops on each text the portal may answer with, computed once
BenchesOf == [b \in SubmitBodies \cup ListBodies |-> ParseBenches(b)]
CaseTypesOf == [b \in ListBodies |-> ParseCaseTypes(b)]

ListOps == {"list_benches", "list_case_types"}
ListUrl(o) == IF o = "list_benches" THEN "INDEX_QRY_URL" ELSE "FILL_CASE_TYPE_URL"

\* fill_bench_form / fill_case_type_form
ListForm(o) ==
  [caseStatusSearchType |-> "", captcha |-> "",
   action_code |-> IF o = "list_benches" THEN "fillHCBench" ELSE ""]

\* list_benches / list_case_types: await self._init_session()
HCListCall ==
  /\ pc = "idle" /\ calls < MaxCalls
  /\ \E o \in ListOps, c \in Courts : op' = o /\ court' = c
  /\ Request("GET", "MAIN_PAGE_URL", NoForm)
  /\ pc' = "list_init"
  /\ steps' = <<"init">>
  /\ UNCHANGED <<cfg_max_retries, cvars, kvars, fvars, rvars, xvars, jvars, carried, attempt, captcha, resp, outcome,
                 calls, solves, captchaId, submitSolves, submits, rejects, rejCookie>>

\* a listing that posts a second time on the same session
HCListDone_PostsAgain ==
  /\ pc = "list_post" /\ tpc = "returned"
  /\ resp' = tresp.text
  /\ IF Len(steps) < 3
     THEN /\ Request("POST", ListUrl(op), ListForm(op))
          /\ steps' = Append(steps, "post")
          /\ UNCHANGED <<pc, outcome>>
     ELSE /\ outcome' = Returned(<<>>)
          /\ pc' = "done" /\ tpc' = "idle"
          /\ UNCHANGED <<pool, jar, srvSeq, tattempt, treq, tresp, terror, last_error,
                         lastCookie, tsent, delays, waits, wire, steps>>
  /\ UNCHANGED <<cfg_max_retries, cvars, kvars, fvars, rvars, xvars, jvars, carried, op, court, attempt, captcha,
                 calls, solves, captchaId, submitSolves, submits, rejects, rejCookie>>

\* the landing page arrived: build the form and POST it
HCListPost ==
  /\ pc = "list_init" /\ tpc = "returned"
  /\ Request("POST", ListUrl(op), ListForm(op))
  /\ pc' = "list_post"
  /\ steps' = Append(steps, "post")
  /\ UNCHANGED <<cfg_max_retries, cvars, kvars, fvars, rvars, xvars, jvars, carried, op, court, attempt, captcha, resp,
                 outcome, calls, solves, captchaId, submitSolves, submits, rejects,
                 rejCookie>>

\* the response arrived: collect the entries and return the dict
HCListDone ==
  /\ pc = "list_post" /\ tpc = "returned"
  /\ resp' = tresp.text
  /\ outcome' = Returned(IF op = "list_benches" THEN BenchesOf[tresp.text]
                         ELSE CaseTypesOf[tresp.text])
  /\ pc' = "done" /\ tpc' = "idle"
  /\ UNCHANGED <<cfg_max_retries, cvars, kvars, fvars, rvars, xvars, jvars, pool, jar, srvSeq, tattempt, treq, tresp,
                 terror, last_error, carried, lastCookie, tsent, delays, waits, wire,
                 op, court, attempt, captcha, calls, steps, solves, captchaId,
                 submitSolves, submits, rejects, rejCookie>>

\* an exception of the HTTP layer leaves the operation at whichever request raised it
HCListTransportError ==
  /\ pc \in {"list_init", "list_post"} /\ tpc = "raised"
  /\ outcome' = Raised(terror)
  /\ pc' = "done" /\ tpc' = "idle"
  /\ UNCHANGED <<cfg_max_retries, cvars, kvars, fvars, rvars, xvars, jvars, pool, jar, srvSeq, tattempt, treq, tresp,
                 terror, last_error, carried, lastCookie, tsent, delays, waits, wire,
                 op, court, attempt, captcha, resp, calls, steps, solves, captchaId,
                 submitSolves, submits, rejects, rejCookie>>

\* the caller has the outcome; the frames of the call are gone
Finish ==
  /\ pc = "done"
  /\ pc' = "idle"
  /\ calls' = calls + 1
  /\ ResetLocals
  /\ UNCHANGED <<cfg_max_retries, cvars, kvars, fvars, rvars, xvars, app_token, pool, jar, srvSeq>>

\* ------------------------------------------------ judgments/endpoints.py
SearchTexts == {"constitution"}
SearchOpts == {"PHRASE", "ANY", "ALL"}
CourtType == "2"

\* check_captcha_form: search_opt is left at its default, app_token is empty
CheckCaptchaForm(text, query) ==
  [captcha |-> text, search_text |-> query, search_opt |-> "PHRASE", app_token |-> ""]

SearchResultsParams(query, text, opt, court_type, token) ==
  [text |-> query, captcha |-> text, search_opt |-> opt, fcourt_type |-> court_type,
   app_token |-> token]

\* ------------------------------------------------ judgments/parser.py
JudgmentResult(bench) == [title |-> "", bench_type |-> bench]

RECURSIVE MapJudgments(_)
MapJudgments(rows) ==
  IF rows = <<>> THEN <<>>
  ELSE IF Cols(Head(rows)) < 7 THEN MapJudgments(Tail(rows))
  ELSE <<JudgmentResult("")>> \o MapJudgments(Tail(rows))

\* parse_judgment_search: no table gives an empty SearchResult; otherwise the
\* header row is skipped and rows of fewer than 7 cells are dropped
ParseJudgmentSearch(html) ==
  LET rows == TableRows(html) IN
    IF rows = <<>> THEN <<>> ELSE MapJudgments(Tail(rows))

JudgmentsOf == [b \in ResultBodies |-> ParseJudgmentSearch(b)]

\* sci/parser.py parse_judgment_list: every row of every table that has at
\* least 3 cells and a link to a PDF gives one result; no header is skipped
ParseJudgmentList(html) ==
  LET at == {i \in 1..Len(html) : LowerHasTable(html[i])} IN
    IF at = {} THEN <<>>
    ELSE LET first == CHOOSE i \in at : \A j \in at : i <= j
             rows == SelectSeq(SubSeq(html, first + 1, Len(html)),
                               LAMBDA t : t = RowPdf)
         IN [i \in DOMAIN rows |-> JudgmentResult("")]

\* ------------------------------------------------ judgments/client.py
\* the Python string a JSON string literal decodes to
TokValue(t) ==
  CASE t = QTokA -> "tokA" [] t = QTokB -> "tokB"
    [] t = QY -> "Y" [] t = QN -> "N" [] OTHER -> t

\* resp.json() followed by the two data.get calls of _validate_captcha:
\* json is "bad" when decoding raises, "other" when the document is not an
\* object (data.get then raises AttributeError), "dict" otherwise
ParseValidation(text) ==
  LET c == NoWs(text)
      isDict == Len(c) > 0 /\ c[1] = "{" /\ JsonLoads(text) # BadMembers
      tok == JsonGet(text, QAppToken)
      st == JsonGet(text, QStatus)
  IN IF isDict
       THEN [json |-> "dict",
             app_token |-> IF tok = <<>> THEN "" ELSE TokValue(tok[1]),
             captcha_status |-> IF st = <<>> THEN "" ELSE TokValue(st[1])]
     ELSE IF Len(c) > 0 /\ ValueEnd(c, 1) = Len(c)
       THEN [json |-> "other", app_token |-> "", captcha_status |-> ""]
     ELSE [json |-> "bad", app_token |-> "", captcha_status |-> ""]

ValidationOf == [b \in ValidationBodies |-> ParseValidation(b)]

\* search(): step 1, _init_session
JSCall ==
  /\ pc = "idle" /\ calls < MaxCalls
  /\ \E q \in SearchTexts, o \in SearchOpts, m \in 0..MaxCaptchaAttempts :
       /\ search_text' = q /\ search_opt' = o /\ max_captcha_attempts' = m
  /\ op' = "search"
  /\ Request("GET", "MAIN_PAGE_URL", NoForm)
  /\ pc' = "js_init"
  /\ steps' = <<"init">>
  /\ UNCHANGED <<cfg_max_retries, cvars, kvars, fvars, rvars, xvars, app_token, acceptTok, acceptText, carried, court,
                 attempt, captcha, resp, outcome, calls, solves, captchaId,
                 submitSolves, submits, rejects, rejCookie>>

\* the landing page arrived: enter the for loop
JSInitDone ==
  /\ pc = "js_init" /\ tpc = "returned"
  /\ pc' = "js_loop" /\ tpc' = "idle"
  /\ UNCHANGED <<cfg_max_retries, cvars, kvars, fvars, rvars, xvars, jvars, pool, jar, srvSeq, tattempt, treq, tresp, terror,
                 last_error, carried, lastCookie, tsent, delays, waits, wire, op, court, attempt,
                 captcha, resp, outcome, calls, steps, solves, captchaId,
                 submitSolves, submits, rejects, rejCookie>>

\* for attempt in range(max_captcha_attempts): _solve_captcha fetches the image
JSFetchCaptcha ==
  /\ pc = "js_loop" /\ attempt < max_captcha_attempts
  /\ Request("GET", "CAPTCHA_IMAGE_URL", NoForm)
  /\ pc' = "js_captcha_get"
  /\ steps' = Append(steps, "captcha")
  /\ UNCHANGED <<cfg_max_retries, cvars, kvars, fvars, rvars, xvars, jvars, carried, op, court, attempt, captcha, resp,
                 outcome, calls, solves, captchaId, submitSolves, submits, rejects,
                 rejCookie>>

\* the else branch of the for loop: return SearchResult()
JSExhausted ==
  /\ pc = "js_loop" /\ attempt >= max_captcha_attempts
  /\ outcome' = Returned(<<>>)
  /\ pc' = "done"
  /\ UNCHANGED <<cfg_max_retries, cvars, kvars, fvars, rvars, xvars, jvars, tvars, op, court, attempt, captcha, resp, calls,
                 steps, solves, captchaId, submitSolves, submits, rejects, rejCookie>>

\* the image arrived; _solve_captcha awaits the solver
JSSolveStart ==
  /\ pc = "js_captcha_get" /\ tpc = "returned"
  /\ pc' = "js_solve" /\ tpc' = "idle"
  /\ steps' = Append(steps, "solve")
  /\ solves' = solves + 1
  /\ UNCHANGED <<cfg_max_retries, cvars, kvars, fvars, rvars, xvars, jvars, pool, jar, srvSeq, tattempt, treq, tresp, terror,
                 last_error, carried, lastCookie, tsent, delays, waits, wire, op, court, attempt,
                 captcha, resp, outcome, calls, captchaId, submitSolves, submits,
                 rejects, rejCookie>>

\* an empty solver text that repeats the attempt instead of using it up
JSEmptyText_NotCounted ==
  /\ pc = "js_solve" /\ "" \in CaptchaTexts
  /\ captcha' = ""
  /\ attempt' = attempt
  /\ pc' = "js_loop"
  /\ UNCHANGED <<cfg_max_retries, cvars, kvars, fvars, rvars, xvars, jvars, tvars, op, court, resp, outcome, calls, steps,
                 solves, captchaId, submitSolves, submits, rejects, rejCookie>>

\* if not captcha_text: continue
JSEmptyText ==
  /\ pc = "js_solve" /\ "" \in CaptchaTexts
  /\ captcha' = ""
  /\ attempt' = attempt + 1
  /\ pc' = "js_loop"
  /\ UNCHANGED <<cfg_max_retries, cvars, kvars, fvars, rvars, xvars, jvars, tvars, op, court, resp, outcome, calls, steps,
                 solves, captchaId, submitSolves, submits, rejects, rejCookie>>

\* _validate_captcha: POST the form
JSValidate ==
  /\ pc = "js_solve"
  /\ \E text \in CaptchaTexts \ {""} :
       /\ captcha' = text
       /\ Request("POST", "CHECK_CAPTCHA_URL", CheckCaptchaForm(text, search_text))
  /\ captchaId' = solves
  /\ submitSolves' = Append(submitSolves, solves)
  /\ pc' = "js_validate"
  /\ steps' = Append(steps, "validate")
  /\ UNCHANGED <<cfg_max_retries, cvars, kvars, fvars, rvars, xvars, jvars, carried, op, court, attempt, resp, outcome, calls,
                 solves, submits, rejects, rejCookie>>

\* resp.json() raised: _validate_captcha returns False, the loop goes on
JSValidateNotJson ==
  /\ pc = "js_validate" /\ tpc = "returned"
  /\ ValidationOf[tresp.text].json = "bad"
  /\ resp' = tresp
  /\ submits' = submits + 1 /\ rejects' = rejects + 1
  /\ attempt' = attempt + 1
  /\ pc' = "js_loop" /\ tpc' = "idle"
  /\ UNCHANGED <<cfg_max_retries, cvars, kvars, fvars, rvars, xvars, jvars, pool, jar, srvSeq, tattempt, treq, tresp, terror,
                 last_error, carried, lastCookie, tsent, delays, waits, wire, op, court, captcha,
                 outcome, calls, steps, solves, captchaId, submitSolves, rejCookie>>

\* the document is JSON but not an object: data.get raises AttributeError,
\* which nothing in search catches
JSValidateNotDict ==
  /\ pc = "js_validate" /\ tpc = "returned"
  /\ ValidationOf[tresp.text].json = "other"
  /\ resp' = tresp
  /\ submits' = submits + 1
  /\ outcome' = Raised("AttributeError")
  /\ pc' = "done" /\ tpc' = "idle"
  /\ UNCHANGED <<cfg_max_retries, cvars, kvars, fvars, rvars, xvars, jvars, pool, jar, srvSeq, tattempt, treq, tresp, terror,
                 last_error, carried, lastCookie, tsent, delays, waits, wire, op, court, attempt,
                 captcha, calls, steps, solves, captchaId, submitSolves, rejects,
                 rejCookie>>

\* captcha_status is not "Y": the token is stored all the same, the loop goes on
JSValidateRejected ==
  /\ pc = "js_validate" /\ tpc = "returned"
  /\ ValidationOf[tresp.text].json = "dict"
  /\ ValidationOf[tresp.text].captcha_status # "Y"
  /\ app_token' = ValidationOf[tresp.text].app_token
  /\ resp' = tresp
  /\ submits' = submits + 1 /\ rejects' = rejects + 1
  /\ attempt' = attempt + 1
  /\ pc' = "js_loop" /\ tpc' = "idle"
  /\ UNCHANGED <<cfg_max_retries, cvars, kvars, fvars, rvars, xvars, jlocals, pool, jar, srvSeq, tattempt, treq, tresp,
                 terror, last_error, carried, lastCookie, tsent, delays, waits, wire, op, court,
                 captcha, outcome, calls, steps, solves, captchaId, submitSolves,
                 rejCookie>>

\* a results request built from the token the client held before the validation
JSValidateAccepted_StaleToken ==
  /\ pc = "js_validate" /\ tpc = "returned"
  /\ ValidationOf[tresp.text].json = "dict"
  /\ ValidationOf[tresp.text].captcha_status = "Y"
  /\ app_token' = ValidationOf[tresp.text].app_token
  /\ acceptTok' = ValidationOf[wire.text].app_token
  /\ acceptText' = treq.form.captcha
  /\ resp' = tresp
  /\ submits' = submits + 1
  /\ Request("GET", "SEARCH_RESULTS_URL",
             SearchResultsParams(search_text, captcha, search_opt, CourtType, app_token))
  /\ pc' = "js_results"
  /\ steps' = Append(steps, "results")
  /\ UNCHANGED <<cfg_max_retries, cvars, kvars, fvars, rvars, xvars, search_text, search_opt, max_captcha_attempts, carried,
                 op, court, attempt, captcha, outcome, calls, solves, captchaId,
                 submitSolves, rejects, rejCookie>>

\* captcha_status is "Y": break, then step 3 issues the results GET
JSValidateAccepted ==
  /\ pc = "js_validate" /\ tpc = "returned"
  /\ ValidationOf[tresp.text].json = "dict"
  /\ ValidationOf[tresp.text].captcha_status = "Y"
  /\ app_token' = ValidationOf[tresp.text].app_token
  /\ acceptTok' = ValidationOf[wire.text].app_token
  /\ acceptText' = treq.form.captcha
  /\ resp' = tresp
  /\ submits' = submits + 1
  /\ Request("GET", "SEARCH_RESULTS_URL",
             SearchResultsParams(search_text, captcha, search_opt, CourtType, app_token'))
  /\ pc' = "js_results"
  /\ steps' = Append(steps, "results")
  /\ UNCHANGED <<cfg_max_retries, cvars, kvars, fvars, rvars, xvars, search_text, search_opt, max_captcha_attempts, carried,
                 op, court, attempt, captcha, outcome, calls, solves, captchaId,
                 submitSolves, rejects, rejCookie>>

\* the results page arrived: return parse_judgment_search(resp.text)
JSResults ==
  /\ pc = "js_results" /\ tpc = "returned"
  /\ resp' = tresp
  /\ outcome' = Returned(JudgmentsOf[tresp.text])
  /\ pc' = "done" /\ tpc' = "idle"
  /\ UNCHANGED <<cfg_max_retries, cvars, kvars, fvars, rvars, xvars, jvars, pool, jar, srvSeq, tattempt, treq, tresp, terror,
                 last_error, carried, lastCookie, tsent, delays, waits, wire, op, court, attempt,
                 captcha, calls, steps, solves, captchaId, submitSolves, submits,
                 rejects, rejCookie>>

\* an exception of the HTTP layer leaves search at whichever request raised it
JSTransportError ==
  /\ pc \in {"js_init", "js_captcha_get", "js_validate", "js_results"} /\ tpc = "raised"
  /\ outcome' = Raised(terror)
  /\ pc' = "done" /\ tpc' = "idle"
  /\ UNCHANGED <<cfg_max_retries, cvars, kvars, fvars, rvars, xvars, jvars, pool, jar, srvSeq, tattempt, treq, tresp, terror,
                 last_error, carried, lastCookie, tsent, delays, waits, wire, op, court, attempt,
                 captcha, resp, calls, steps, solves, captchaId, submitSolves,
                 submits, rejects, rejCookie>>

\* ------------------------------------------- http.py, used on its own
\* one URL on each of the two portals' hosts
HttpUrls == {"MAIN_PAGE_URL", "SEARCH_RESULTS_URL"}
HttpOps == {"get", "post", "get_bytes", "get_text"}

\* __aenter__: _ensure_client (with a pool already open it changes nothing)
Enter ==
  /\ pc = "idle" /\ pool = "none"
  /\ EnsureClient
  /\ UNCHANGED <<cfg_max_retries, cvars, kvars, fvars, rvars, xvars, jvars, srvSeq, tpc, tattempt, treq, tresp, terror,
                 last_error, carried, lastCookie, tsent, delays, waits, wire, pvars>>

\* a close that calls aclose whether or not the client holds an open pool
Close_Unguarded ==
  /\ pc = "idle" /\ closeCalls < MaxCloses
  /\ closeCalls' = closeCalls + 1
  /\ pool' = "none" /\ jar' = 0 /\ released' = released + 1
  /\ UNCHANGED <<cfg_max_retries, kvars, fvars, rvars, xvars, jvars, srvSeq, tpc, tattempt, treq, tresp, terror,
                 last_error, carried, lastCookie, tsent, delays, waits, wire, pvars>>

\* close, also awaited by __aexit__: aclose and forget the pool, if one is open
Close ==
  /\ pc = "idle" /\ closeCalls < MaxCloses
  /\ closeCalls' = closeCalls + 1
  /\ IF pool = "open"
     THEN pool' = "none" /\ jar' = 0 /\ released' = released + 1
     ELSE UNCHANGED <<pool, jar, released>>
  /\ UNCHANGED <<cfg_max_retries, kvars, fvars, rvars, xvars, jvars, srvSeq, tpc, tattempt, treq, tresp, terror,
                 last_error, carried, lastCookie, tsent, delays, waits, wire, pvars>>

\* get / post / get_bytes / get_text: all enter _request
HttpCall ==
  /\ pc = "idle" /\ calls < MaxCalls
  /\ \E o \in HttpOps, url \in HttpUrls :
       /\ op' = o
       /\ Request(IF o = "post" THEN "POST" ELSE "GET", url, NoForm)
  /\ pc' = "http"
  /\ UNCHANGED <<cfg_max_retries, cvars, kvars, fvars, rvars, xvars, jvars, carried, court, attempt, captcha, resp,
                 outcome, calls, steps, solves, captchaId, submitSolves, submits,
                 rejects, rejCookie>>

\* _request returned: get and post hand the response on, get_bytes its
\* content, get_text its text
HttpReturn ==
  /\ pc = "http" /\ tpc = "returned"
  /\ resp' = tresp
  /\ outcome' = Returned(<<CASE op = "get_bytes" -> tresp.content
                            [] op = "get_text" -> tresp.text
                            [] OTHER -> tresp>>)
  /\ pc' = "done" /\ tpc' = "idle"
  /\ UNCHANGED <<cfg_max_retries, cvars, kvars, fvars, rvars, xvars, jvars, pool, jar, srvSeq, tattempt, treq, tresp,
                 terror, last_error, carried, lastCookie, tsent, delays, waits, wire,
                 op, court, attempt, captcha, calls, steps, solves, captchaId,
                 submitSolves, submits, rejects, rejCookie>>

\* _request raised: nothing in get / post / get_bytes / get_text catches it
HttpRaise ==
  /\ pc = "http" /\ tpc = "raised"
  /\ outcome' = Raised(terror)
  /\ pc' = "done" /\ tpc' = "idle"
  /\ UNCHANGED <<cfg_max_retries, cvars, kvars, fvars, rvars, xvars, jvars, pool, jar, srvSeq, tattempt, treq, tresp,
                 terror, last_error, carried, lastCookie, tsent, delays, waits, wire,
                 op, court, attempt, captcha, resp, calls, steps, solves, captchaId,
                 submitSolves, submits, rejects, rejCookie>>

\* ------------------------- the portal clients' scope over their transport
\* HCServicesClient, JudgmentSearchClient and SCIClient share the pattern
\*   self._http = http_client or RateLimitedClient(self._config)
\*   self._owns_http = http_client is None
\* The transport variables are those of the RateLimitedClient the portal
\* client holds; the code that injects a transport goes on using it directly.
PortalClasses == {"HCServicesClient", "JudgmentSearchClient", "SCIClient"}

InitPortal ==
  /\ cfg_max_retries = MaxRetriesCfg
  /\ NewClient
  /\ NoTasks
  /\ NoFunction
  /\ NoRegistry
  /\ NoMore

\* the transport's creator uses it directly: async with / __aenter__
OwnerEnter == ~portal.owns_http /\ Enter

\* the transport's creator closes it
OwnerClose == ~portal.owns_http /\ Close

\* the transport's creator awaits get / post / get_bytes / get_text on it
OwnerCall == ~portal.owns_http /\ portal.scope # "entered" /\ HttpCall

\* __init__: with http_client given the client holds that transport, in the
\* state it is in; without, it holds a RateLimitedClient created here
PortalNew ==
  /\ portal.scope = "none" /\ pc = "idle"
  /\ \E c \in PortalClasses, injected \in BOOLEAN :
       /\ injected \/ (pool = "none" /\ released = 0 /\ closeCalls = 0 /\ calls = 0)
       /\ portal' = [class |-> c, owns_http |-> ~injected, scope |-> "new"]
  /\ UNCHANGED <<cfg_max_retries, cvars, tvars, pvars, jvars, kvars, fvars, rvars,
                 cfg_request_delay, know, ksent, kapp, ktok>>

\* __aenter__: await self._http.__aenter__(), which is _ensure_client
PortalEnter ==
  /\ portal.scope = "new" /\ pc = "idle"
  /\ EnsureClient
  /\ portal' = [portal EXCEPT !.scope = "entered"]
  /\ UNCHANGED <<cfg_max_retries, cvars, kvars, fvars, rvars, jvars, srvSeq, tpc, tattempt, treq, tresp, terror,
                 last_error, carried, lastCookie, tsent, delays, waits, wire, pvars,
                 cfg_request_delay, know, ksent, kapp, ktok>>

\* an operation of the portal client: a request on self._http
PortalCall == portal.scope = "entered" /\ HttpCall

\* an __aexit__ that closes the transport it holds, whoever created it
PortalExit_AlwaysCloses ==
  /\ portal.scope = "entered" /\ pc = "idle"
  /\ /\ closeCalls' = closeCalls + 1
     /\ IF pool = "open"
        THEN pool' = "none" /\ jar' = 0 /\ released' = released + 1
        ELSE UNCHANGED <<pool, jar, released>>
  /\ portal' = [portal EXCEPT !.scope = "exited"]
  /\ UNCHANGED <<cfg_max_retries, kvars, fvars, rvars, jvars, srvSeq, tpc, tattempt, treq, tresp, terror,
                 last_error, carried, lastCookie, tsent, delays, waits, wire, pvars,
                 cfg_request_delay, know, ksent, kapp, ktok>>

\* __aexit__: if self._owns_http: await self._http.__aexit__(*args), which
\* is close()
PortalExit ==
  /\ portal.scope = "entered" /\ pc = "idle"
  /\ IF portal.owns_http
     THEN /\ closeCalls' = closeCalls + 1
          /\ IF pool = "open"
             THEN pool' = "none" /\ jar' = 0 /\ released' = released + 1
             ELSE UNCHANGED <<pool, jar, released>>
     ELSE UNCHANGED <<pool, jar, released, closeCalls>>
  /\ portal' = [portal EXCEPT !.scope = "exited"]
  /\ UNCHANGED <<cfg_max_retries, kvars, fvars, rvars, jvars, srvSeq, tpc, tattempt, treq, tresp, terror,
                 last_error, carried, lastCookie, tsent, delays, waits, wire, pvars,
                 cfg_request_delay, know, ksent, kapp, ktok>>

\* ------------------------------------- the parsing functions on their own
\* A function under test is named by fname, its argument is fin, and fout is
\* what it returned or raised; NoOutcome while it has not been applied.
FnDone == fout # NoOutcome

FnFrame == UNCHANGED <<cfg_max_retries, cvars, tvars, pvars, jvars, kvars, rvars, xvars, fname, fin>>

\* one listing entry: padding, code, '~', padding, name
ListEntry(pre, code, mid, name) == pre \o code \o <<"~">> \o mid \o name

ListCodes == {<<>>, <<"0">>, <<"1">>, <<"2">>}
ListNames == {<<>>, <<"nm">>, <<"alt">>, <<"Sel">>}
CodePads == {<<>>, <<BOM>>, <<WS>>, <<WS, BOM>>, <<BOM, WS>>}
NamePads == {<<>>, <<BOM>>, <<WS, BOM>>}

\* entries a listing is made of: every code with every name, a good entry
\* under every padding, and the odd ones (no '~', two '~', 'select' inside a
\* longer name, trailing blank, a padded zero code)
ListEntries ==
  {ListEntry(<<>>, c, <<>>, n) : c \in ListCodes, n \in ListNames}
  \cup {ListEntry(p, <<"1">>, q, <<"nm">>) : p \in CodePads, q \in NamePads}
  \cup {<<>>, <<"nm">>,
        <<"1", "~", "nm", "~", "alt">>,
        <<"2", "~", "nm", "Sel">>,
        <<"2", WS, "~", WS, "alt", WS>>,
        <<BOM, WS, "0", "~", "nm">>}

\* "#".join(entries)
RECURSIVE JoinEntries(_)
JoinEntries(entries) ==
  IF entries = <<>> THEN <<>>
  ELSE IF Len(entries) = 1 THEN entries[1]
  ELSE entries[1] \o <<"#">> \o JoinEntries(Tail(entries))

ListTexts ==
  {JoinEntries(es) : es \in UNION {[1..n -> ListEntries] : n \in 0..MaxEntries}}

\* texts given to parse_case_status besides those of SubmitBodies
BodyMalformed == <<"{", QCon>>
BodyNoTot == <<"{", QCon, ":", "[", "]", "}">>
BodyTotNull == <<"{", QCon, ":", "[", "]", ",", QTot, ":", Null, ",", QError, ":", QEmpty, "}">>
BodyTotAbc == <<"{", QCon, ":", "[", "]", ",", QTot, ":", QAbc, ",", QError, ":", QEmpty, "}">>
BodyErrorNull == <<"{", QCon, ":", "[", QInner, "]", ",", QError, ":", Null, "}">>
BodyNoResults == <<"<html>", "No results">>

EnvelopeTexts ==
  SubmitBodies \cup {<<>>, BodyMalformed, BodyNoTot, BodyTotNull, BodyTotAbc,
                     BodyErrorNull, BodyNoResults}

\* texts given to the parsers of HTML pages
HtmlTexts ==
  {<<>>, <<"<html>">>, BodyNoResults, BodyEmpty, BodyMalformed, BodyHtml,
   <<TableTag>>, <<TableTag, Row7>>, <<TableTag, Row7, Row7, Row4>>,
   <<TableTag, Row3, RowPdf, RowPdf>>, <<TableTag, RowPdf>>}

HtmlParsers ==
  {"parse_orders", "parse_cause_list", "parse_judgment_search", "parse_judgment_list"}
Parsers == {"parse_case_status"} \cup HtmlParsers

ApplyParseCaseStatus ==
  /\ fname = "parse_case_status" /\ ~FnDone
  /\ fout' = ParseCaseStatus(fin)
  /\ FnFrame

ApplyParseOrders ==
  /\ fname = "parse_orders" /\ ~FnDone
  /\ fout' = Returned(ParseOrders(fin))
  /\ FnFrame

ApplyParseCauseList ==
  /\ fname = "parse_cause_list" /\ ~FnDone
  /\ fout' = Returned(ParseCauseList(fin))
  /\ FnFrame

ApplyParseJudgmentSearch ==
  /\ fname = "parse_judgment_search" /\ ~FnDone
  /\ fout' = Returned(ParseJudgmentSearch(fin))
  /\ FnFrame

ApplyParseJudgmentList ==
  /\ fname = "parse_judgment_list" /\ ~FnDone
  /\ fout' = Returned(ParseJudgmentList(fin))
  /\ FnFrame

\* an href or URL is a sequence of pieces: "http" stands for these four
\* letters, "/" for a slash, WS for a blank
BaseUrl == <<"http", "s", "://", "host">>
HrefAbsolute == <<"http", "s", "://", "cdn", "/", "o.pdf">>
HrefRooted == <<"/", "orders", "/", "o.pdf">>
HrefBare == <<"orders", "/", "o.pdf">>
HrefHttpName == <<"http", "docs", "/", "o.pdf">>

Hrefs ==
  {<<>>, HrefAbsolute, <<"http", "://", "cdn", "/", "o.pdf">>, HrefRooted, HrefBare,
   <<"o.pdf">>, HrefHttpName, <<WS, "o.pdf", WS>>}

\* <<base_url, href>>: the base the parser is given and the href of a row's link
LinkInputs == {<<b, h>> : b \in {<<>>, BaseUrl}, h \in Hrefs}

\* parse_orders, the pdf_url of a row whose link carries href
OrdersPdfUrl(base_url, href) ==
  IF href = <<>> THEN <<>>
  ELSE IF StartsWith(href, "/") THEN base_url \o href
  ELSE href

\* parse_cause_list, the pdf_url of a row whose link carries href
CauseListPdfUrl(base_url, href) ==
  IF href = <<>> THEN <<>>
  ELSE LET h == Strip(href) IN
    IF StartsWith(h, "http") THEN h
    ELSE IF base_url # <<>> THEN base_url \o <<"/", "cases_qry", "/">> \o h
    ELSE h

ApplyOrdersRow ==
  /\ fname = "parse_orders.row" /\ ~FnDone
  /\ fout' = Returned(<<OrdersPdfUrl(fin[1], fin[2])>>)
  /\ FnFrame

ApplyCauseListRow ==
  /\ fname = "parse_cause_list.row" /\ ~FnDone
  /\ fout' = Returned(<<CauseListPdfUrl(fin[1], fin[2])>>)
  /\ FnFrame

\* _clean_text: trim, and one blank for every run of blanks
RECURSIVE Collapse(_)
Collapse(text) ==
  IF Len(text) < 2 THEN text
  ELSE IF text[1] = WS /\ text[2] = WS THEN Collapse(Tail(text))
  ELSE <<text[1]>> \o Collapse(Tail(text))

CleanText(text) == Collapse(Strip(text))

\* a text of the parties cell is a sequence of words, blanks and full stops
IsWord(tok) == tok \notin {WS, "."}

\* w.lower() for the words a separator is made of
LowerWord(w) ==
  IF w \in {"v", "V"} THEN "v"
  ELSE IF w \in {"vs", "Vs", "vS", "VS"} THEN "vs"
  ELSE w

\* the pattern \bvs?\b with IGNORECASE matches the word at i
VsMatch(text, i) ==
  /\ LowerWord(text[i]) \in {"v", "vs"}
  /\ i = 1 \/ ~IsWord(text[i - 1])
  /\ i = Len(text) \/ ~IsWord(text[i + 1])

\* _extract_parties: the texts of the strong elements of the cell and the
\* text of the whole cell give <<petitioner, respondent>>
ExtractParties(strongs, text) ==
  IF Len(strongs) >= 2 THEN <<CleanText(strongs[1]), CleanText(strongs[2])>>
  ELSE LET t == CleanText(text)
           at == {i \in DOMAIN t : VsMatch(t, i)}
       IN IF at = {} THEN <<t, <<>>>>
          ELSE LET first == CHOOSE i \in at : \A j \in at : i <= j
               IN <<Strip(SubSeq(t, 1, first - 1)), Strip(SubSeq(t, first + 1, Len(t)))>>

Petitioners == {<<"ABC">>, <<"ABC", WS, "Ltd">>, <<"V", WS, "Kumar">>}
Respondents == {<<"Union">>, <<"State", WS, "of", WS, "Delhi">>}
Separators == {<<w>> : w \in {"vs", "Vs", "VS"}} \cup {<<w, ".">> : w \in {"vs", "Vs", "VS"}}

\* the cell text 'P vs R' or 'P vs. R'
PartiesText(p, sep, r) == p \o <<WS>> \o sep \o <<WS>> \o r

\* <<strongs, text>> of a parties cell
PartiesCells ==
  {<<<<>>, PartiesText(p, sep, r)>> : p \in Petitioners, r \in Respondents, sep \in Separators}
  \cup {<<<<p, r>>, PartiesText(p, <<"vs">>, r)>> : p \in Petitioners, r \in Respondents}
  \cup {<<<<>>, p>> : p \in Petitioners}
  \cup {<<<<p>>, PartiesText(p, <<WS, "Vs">>, r)>> : p \in Petitioners, r \in Respondents}

ApplyExtractParties ==
  /\ fname = "_extract_parties" /\ ~FnDone
  /\ fout' = Returned(ExtractParties(fin[1], fin[2]))
  /\ FnFrame

\* a floor where the property rounds up
TotalPages_Floor(total_count, page_size) ==
  IF page_size = 0 THEN 0 ELSE total_count \div page_size

\* models.py SearchResult.total_pages
TotalPages(total_count, page_size) ==
  IF page_size = 0 THEN 0 ELSE (total_count + page_size - 1) \div page_size

\* <<total_count, page_size>> of a SearchResult
PageInputs == {<<n, m>> : n \in 0..MaxTotalCount, m \in 0..MaxPageSize}

ApplyTotalPages ==
  /\ fname = "total_pages" /\ ~FnDone
  /\ fout' = Returned(<<TotalPages(fin[1], fin[2])>>)
  /\ FnFrame

ApplyListBenches ==
  /\ fname = "list_benches" /\ ~FnDone
  /\ fout' = Returned(ParseBenches(fin))
  /\ FnFrame

ApplyListCaseTypes ==
  /\ fname = "list_case_types" /\ ~FnDone
  /\ fout' = Returned(ParseCaseTypes(fin))
  /\ FnFrame

\* ------------------------------------------------------ the court registry
\* courts.py: the fixed table, a code written letter by letter
Court(name, code, state_code, court_type, bench) ==
  [name |-> name, code |-> code, state_code |-> state_code,
   court_type |-> court_type, bench |-> bench]

HIGH_COURTS ==
  <<Court("Allahabad High Court", <<"a", "l", "l", "a", "h", "a", "b", "a", "d">>, "13", "HIGH_COURT", "None"),
    Court("Allahabad High Court, Lucknow Bench", <<"a", "l", "l", "a", "h", "a", "b", "a", "d", "-", "l", "u", "c", "k", "n", "o", "w">>, "13", "HIGH_COURT", "Lucknow"),
    Court("Andhra Pradesh High Court", <<"a", "n", "d", "h", "r", "a">>, "2", "HIGH_COURT", "None"),
    Court("Bombay High Court", <<"b", "o", "m", "b", "a", "y">>, "1", "HIGH_COURT", "None"),
    Court("Bombay High Court, Nagpur Bench", <<"b", "o", "m", "b", "a", "y", "-", "n", "a", "g", "p", "u", "r">>, "1", "HIGH_COURT", "Nagpur"),
    Court("Bombay High Court, Aurangabad Bench", <<"b", "o", "m", "b", "a", "y", "-", "a", "u", "r", "a", "n", "g", "a", "b", "a", "d">>, "1", "HIGH_COURT", "Aurangabad"),
    Court("Bombay High Court, Goa Bench", <<"b", "o", "m", "b", "a", "y", "-", "g", "o", "a">>, "1", "HIGH_COURT", "Goa"),
    Court("Calcutta High Court", <<"c", "a", "l", "c", "u", "t", "t", "a">>, "16", "HIGH_COURT", "None"),
    Court("Chhattisgarh High Court", <<"c", "h", "h", "a", "t", "t", "i", "s", "g", "a", "r", "h">>, "18", "HIGH_COURT", "None"),
    Court("Delhi High Court", <<"d", "e", "l", "h", "i">>, "26", "HIGH_COURT", "None"),
    Court("Gauhati High Court", <<"g", "a", "u", "h", "a", "t", "i">>, "6", "HIGH_COURT", "None"),
    Court("Gujarat High Court", <<"g", "u", "j", "a", "r", "a", "t">>, "17", "HIGH_COURT", "None"),
    Court("Himachal Pradesh High Court", <<"h", "i", "m", "a", "c", "h", "a", "l">>, "5", "HIGH_COURT", "None"),
    Court("Jammu & Kashmir High Court", <<"j", "a", "m", "m", "u">>, "12", "HIGH_COURT", "None"),
    Court("Jharkhand High Court", <<"j", "h", "a", "r", "k", "h", "a", "n", "d">>, "7", "HIGH_COURT", "None"),
    Court("Karnataka High Court", <<"k", "a", "r", "n", "a", "t", "a", "k", "a">>, "3", "HIGH_COURT", "None"),
    Court("Kerala High Court", <<"k", "e", "r", "a", "l", "a">>, "4", "HIGH_COURT", "None"),
    Court("Madhya Pradesh High Court", <<"m", "p">>, "23", "HIGH_COURT", "None"),
    Court("Madras High Court", <<"m", "a", "d", "r", "a", "s">>, "10", "HIGH_COURT", "None"),
    Court("Manipur High Court", <<"m", "a", "n", "i", "p", "u", "r">>, "25", "HIGH_COURT", "None"),
    Court("Meghalaya High Court", <<"m", "e", "g", "h", "a", "l", "a", "y", "a">>, "21", "HIGH_COURT", "None"),
    Court("Orissa High Court", <<"o", "r", "i", "s", "s", "a">>, "11", "HIGH_COURT", "None"),
    Court("Patna High Court", <<"p", "a", "t", "n", "a">>, "8", "HIGH_COURT", "None"),
    Court("Punjab and Haryana High Court", <<"p", "u", "n", "j", "a", "b">>, "22", "HIGH_COURT", "None"),
    Court("Rajasthan High Court", <<"r", "a", "j", "a", "s", "t", "h", "a", "n">>, "9", "HIGH_COURT", "None"),
    Court("Sikkim High Court", <<"s", "i", "k", "k", "i", "m">>, "24", "HIGH_COURT", "None"),
    Court("Telangana High Court", <<"t", "e", "l", "a", "n", "g", "a", "n", "a">>, "29", "HIGH_COURT", "None"),
    Court("Tripura High Court", <<"t", "r", "i", "p", "u", "r", "a">>, "20", "HIGH_COURT", "None"),
    Court("Uttarakhand High Court", <<"u", "t", "t", "a", "r", "a", "k", "h", "a", "n", "d">>, "15", "HIGH_COURT", "None")>>

SUPREME_COURT ==
  Court("Supreme Court of India", <<"s", "c", "i">>, "0", "SUPREME_COURT", "None")

ALL_COURTS == <<SUPREME_COURT>> \o HIGH_COURTS

\* the court of tests/test_models.py, not in the table
TestCourt == Court("Test", <<"t", "e", "s", "t">>, "0", "HIGH_COURT", "None")

\* A Court is frozen, so a Court object is its value for good; a list or a
\* dict holds references to Court objects, written as the object's place in
\* CourtObjects.
CourtObjects == ALL_COURTS \o <<TestCourt>>
TestCourtId == Len(CourtObjects)

\* the references a list of the module holds at import
Refs(courts) ==
  [i \in DOMAIN courts |-> CHOOSE k \in DOMAIN ALL_COURTS : ALL_COURTS[k] = courts[i]]

\* _BY_CODE = {c.code: c for c in ALL_COURTS}: the last court of a code wins
ByCode ==
  [code \in {ALL_COURTS[i].code : i \in DOMAIN ALL_COURTS} |->
     CHOOSE i \in DOMAIN ALL_COURTS :
       /\ ALL_COURTS[i].code = code
       /\ \A j \in DOMAIN ALL_COURTS : ALL_COURTS[j].code = code => j <= i]

\* the list objects of the module: HIGH_COURTS and ALL_COURTS
HighId == 1
AllId == 2

LowerLetters ==
  <<"a", "b", "c", "d", "e", "f", "g", "h", "i", "j", "k", "l", "m",
    "n", "o", "p", "q", "r", "s", "t", "u", "v", "w", "x", "y", "z">>
UpperLetters ==
  <<"A", "B", "C", "D", "E", "F", "G", "H", "I", "J", "K", "L", "M",
    "N", "O", "P", "Q", "R", "S", "T", "U", "V", "W", "X", "Y", "Z">>

\* str.lower(), letter by letter
Lower(text) ==
  [i \in DOMAIN text |->
     IF \E k \in DOMAIN UpperLetters : UpperLetters[k] = text[i]
     THEN LowerLetters[CHOOSE k \in DOMAIN UpperLetters : UpperLetters[k] = text[i]]
     ELSE text[i]]

\* str.upper(), letter by letter
Upper(text) ==
  [i \in DOMAIN text |->
     IF \E k \in DOMAIN LowerLetters : LowerLetters[k] = text[i]
     THEN UpperLetters[CHOOSE k \in DOMAIN LowerLetters : LowerLetters[k] = text[i]]
     ELSE text[i]]

\* the spellings of a code a caller may pass: as it is, capitals, first capital
CaseVariants(code) ==
  {code, Upper(code), Upper(SubSeq(code, 1, 1)) \o SubSeq(code, 2, Len(code))}

Nonexistent == <<"n", "o", "n", "e", "x", "i", "s", "t", "e", "n", "t">>

LookupArgs ==
  UNION {CaseVariants(ALL_COURTS[i].code) : i \in DOMAIN ALL_COURTS} \cup {Nonexistent}

\* code.lower() of every argument, computed once
LowerOf == [a \in LookupArgs |-> Lower(a)]

\* the module has been imported and the caller has done nothing yet
InitCourts ==
  /\ cfg_max_retries = MaxRetriesCfg
  /\ NewClient /\ NoTasks /\ NoFunction /\ NoMore
  /\ lists = <<Refs(HIGH_COURTS), Refs(ALL_COURTS)>>
  /\ by_code = ByCode
  /\ NoCaller

CourtsFrame == UNCHANGED <<cfg_max_retries, cvars, tvars, pvars, jvars, kvars, fvars, xvars>>

\* get_court(code)
GetCourt ==
  /\ \E a \in LookupArgs :
       /\ gotArg' = a
       /\ got' = IF LowerOf[a] \in DOMAIN by_code THEN <<by_code[LowerOf[a]]>> ELSE <<>>
  /\ UNCHANGED <<lists, by_code, held, raised, edits>>
  /\ CourtsFrame

\* list_high_courts(): list(HIGH_COURTS), a new list object
ListHighCourts ==
  /\ Len(lists) < AllId + MaxCopies
  /\ lists' = Append(lists, lists[HighId])
  /\ held' = Len(lists) + 1
  /\ UNCHANGED <<by_code, gotArg, got, raised, edits>>
  /\ CourtsFrame

\* a list_all_courts that hands out ALL_COURTS itself
ListAllCourts_SameList ==
  /\ Len(lists) < AllId + MaxCopies
  /\ held' = AllId
  /\ UNCHANGED <<lists, by_code, gotArg, got, raised, edits>>
  /\ CourtsFrame

\* list_all_courts(): list(ALL_COURTS), a new list object
ListAllCourts ==
  /\ Len(lists) < AllId + MaxCopies
  /\ lists' = Append(lists, lists[AllId])
  /\ held' = Len(lists) + 1
  /\ UNCHANGED <<by_code, gotArg, got, raised, edits>>
  /\ CourtsFrame

\* the caller appends to, pops from or clears the list it holds
CallerEdit ==
  /\ held # 0 /\ edits < MaxEdits
  /\ \E new \in {Append(lists[held], TestCourtId),
                 SubSeq(lists[held], 1, Len(lists[held]) - 1),
                 <<>>} :
       /\ new # lists[held]
       /\ lists' = [lists EXCEPT ![held] = new]
  /\ edits' = edits + 1
  /\ UNCHANGED <<by_code, held, gotArg, got, raised>>
  /\ CourtsFrame

\* the caller assigns to a field of the Court it got: the dataclass is frozen
CallerSetField ==
  /\ got # <<>> /\ raised = ""
  /\ raised' = "FrozenInstanceError"
  /\ UNCHANGED <<lists, by_code, held, gotArg, got, edits>>
  /\ CourtsFrame

NextCourts ==
  GetCourt \/ ListHighCourts \/ ListAllCourts \/ CallerEdit \/ CallerSetField

SpecCourts == InitCourts /\ [][NextCourts]_vars

\* ------------------------- two calls of a challenge-gated operation at once
\* Each call runs the loop of _post_with_captcha_retry; every await is a
\* point where the other call may run, and a request is sent and answered in
\* two steps. The HTTP retries of one request are left to the transport steps
\* above; here a request is answered or raises.

\* every call on the one pool and cookie jar
Inst_OneTransport(t) == 1

\* the client instance a call runs on; each instance built without an
\* http_client owns its RateLimitedClient, hence its pool and cookie jar
Inst(t) == IF kshared THEN 1 ELSE t

InitConc ==
  /\ cfg_max_retries = MaxRetriesCfg
  /\ NewClient
  /\ NoFunction
  /\ NoRegistry
  /\ NoMore
  /\ kshared \in BOOLEAN
  /\ kjar = [i \in Instances |-> 0] /\ ksrv = 0
  /\ ktask = [t \in Tasks |-> IdleTask]

\* the caller awaits the operation
KCall(t) ==
  /\ ktask[t].pc = "idle"
  /\ ktask' = [ktask EXCEPT ![t].pc = "loop"]
  /\ UNCHANGED <<kshared, kjar, ksrv>>

\* _init_session: the GET leaves with the cookie the jar holds now
KInitSend(t) ==
  /\ ktask[t].pc = "loop" /\ ktask[t].attempt < CaptchaMaxRetries
  /\ ktask' = [ktask EXCEPT ![t].pc = "init_wait", ![t].sent = kjar[Inst(t)]]
  /\ UNCHANGED <<kshared, kjar, ksrv>>

\* range(max_retries) is used up: raise CaptchaError
KExhausted(t) ==
  /\ ktask[t].pc = "loop" /\ ktask[t].attempt >= CaptchaMaxRetries
  /\ ktask' = [ktask EXCEPT ![t].pc = "done", ![t].outcome = "CaptchaError"]
  /\ UNCHANGED <<kshared, kjar, ksrv>>

\* the landing page answers and keeps the session of the request
KInitKept(t) ==
  /\ ktask[t].pc = "init_wait" /\ ktask[t].sent # 0
  /\ ktask' = [ktask EXCEPT ![t].pc = "inited", ![t].init = ktask[t].sent]
  /\ UNCHANGED <<kshared, kjar, ksrv>>

\* the landing page answers with a Set-Cookie of a new session
KInitNew(t) ==
  /\ ktask[t].pc = "init_wait"
  /\ ktask[t].sent = 0 \/ ksrv < KMaxSessions
  /\ ksrv' = ksrv + 1
  /\ kjar' = [kjar EXCEPT ![Inst(t)] = ksrv + 1]
  /\ ktask' = [ktask EXCEPT ![t].pc = "inited", ![t].init = ksrv + 1]
  /\ UNCHANGED kshared

\* _solve_captcha: the challenge GET leaves with the cookie the jar holds now
KFetchSend(t) ==
  /\ ktask[t].pc = "inited"
  /\ ktask' = [ktask EXCEPT ![t].pc = "fetch_wait", ![t].sent = kjar[Inst(t)]]
  /\ UNCHANGED <<kshared, kjar, ksrv>>

\* the image arrives: the portal bound its challenge to the session of the request
KFetchRecv(t) ==
  /\ ktask[t].pc = "fetch_wait"
  /\ ktask' = [ktask EXCEPT ![t].pc = "fetched", ![t].fetched = ktask[t].sent]
  /\ UNCHANGED <<kshared, kjar, ksrv>>

\* the solver returns the text of that image
KSolve(t) ==
  /\ ktask[t].pc = "fetched"
  /\ ktask' = [ktask EXCEPT ![t].pc = "solved",
                            ![t].captcha = [by |-> t, sess |-> ktask[t].fetched]]
  /\ UNCHANGED <<kshared, kjar, ksrv>>

\* a submit that leaves with the cookie of the call's own session-init
KSubmitSend_OwnSession(t) ==
  /\ ktask[t].pc = "solved"
  /\ ktask' = [ktask EXCEPT ![t].pc = "submit_wait", ![t].sent = ktask[t].init,
                            ![t].submit = [cookie |-> ktask[t].init,
                                           captcha |-> ktask[t].captcha]]
  /\ UNCHANGED <<kshared, kjar, ksrv>>

\* form_builder(captcha) and the POST, which leaves with the cookie the jar holds now
KSubmitSend(t) ==
  /\ ktask[t].pc = "solved"
  /\ ktask' = [ktask EXCEPT ![t].pc = "submit_wait", ![t].sent = kjar[Inst(t)],
                            ![t].submit = [cookie |-> kjar[Inst(t)],
                                           captcha |-> ktask[t].captcha]]
  /\ UNCHANGED <<kshared, kjar, ksrv>>

\* the response carries the marker: continue with the next attempt
KRejected(t) ==
  /\ ktask[t].pc = "submit_wait"
  /\ ktask' = [ktask EXCEPT ![t] = [IdleTask EXCEPT !.pc = "loop",
                                                    !.attempt = ktask[t].attempt + 1]]
  /\ UNCHANGED <<kshared, kjar, ksrv>>

\* no marker: return resp
KAccepted(t) ==
  /\ ktask[t].pc = "submit_wait"
  /\ ktask' = [ktask EXCEPT ![t].pc = "done", ![t].outcome = "return"]
  /\ UNCHANGED <<kshared, kjar, ksrv>>

\* the transport raises: nothing in the loop catches it
KRaise(t) ==
  /\ ktask[t].pc \in {"init_wait", "fetch_wait", "submit_wait"}
  /\ ktask' = [ktask EXCEPT ![t].pc = "done", ![t].outcome = "raise"]
  /\ UNCHANGED <<kshared, kjar, ksrv>>

\* one step of call t
KStep(t) ==
  \/ KCall(t) \/ KInitSend(t) \/ KExhausted(t) \/ KInitKept(t) \/ KInitNew(t)
  \/ KFetchSend(t) \/ KFetchRecv(t) \/ KSolve(t) \/ KSubmitSend(t)
  \/ KRejected(t) \/ KAccepted(t) \/ KRaise(t)

NextConc ==
  /\ \E t \in Tasks : KStep(t)
  /\ UNCHANGED <<cfg_max_retries, cvars, tvars, pvars, jvars, fvars, rvars, xvars>>

SpecConc == InitConc /\ [][NextConc]_vars

\* ------------------ judgments/client.py, two searches awaited concurrently
\* Each action is what one search does between two suspension points: a
\* coroutine that returns to its awaiter does not yield to the event loop,
\* so the statements after 'resp = await self._http.post(...)' up to the next
\* request run without another task in between.
IdleSearch ==
  [pc |-> "idle", attempt |-> 0, recv |-> {}, got |-> 0, params |-> 0, sent |-> 0,
   outcome |-> "none"]

\* two searches on one JudgmentSearchClient or on one each; _app_token is ""
\* (written 0) after construction
InitSearches ==
  /\ cfg_max_retries = MaxRetriesCfg
  /\ NewClient
  /\ NoFunction
  /\ NoRegistry
  /\ kshared \in BOOLEAN
  /\ kjar = [i \in Instances |-> 0] /\ ksrv = 0
  /\ ktask = [t \in Tasks |-> IdleSearch]
  /\ cfg_request_delay = 1 /\ know = 0 /\ ksent = <<>>
  /\ kapp = [i \in Instances |-> 0] /\ ktok = 0
  /\ portal = NoPortal

\* search(): await self._init_session()
JKCall(t) ==
  /\ ktask[t].pc = "idle"
  /\ ktask' = [ktask EXCEPT ![t].pc = "init_wait"]
  /\ UNCHANGED <<kapp, ktok>>

\* the landing page arrived: enter the for loop
JKInitDone(t) ==
  /\ ktask[t].pc = "init_wait"
  /\ ktask' = [ktask EXCEPT ![t].pc = "loop"]
  /\ UNCHANGED <<kapp, ktok>>

\* for attempt in range(max_captcha_attempts): _solve_captcha fetches the image
JKFetch(t) ==
  /\ ktask[t].pc = "loop" /\ ktask[t].attempt < MaxCaptchaAttempts
  /\ ktask' = [ktask EXCEPT ![t].pc = "fetch_wait"]
  /\ UNCHANGED <<kapp, ktok>>

\* the else branch of the for loop: return SearchResult()
JKExhausted(t) ==
  /\ ktask[t].pc = "loop" /\ ktask[t].attempt >= MaxCaptchaAttempts
  /\ ktask' = [ktask EXCEPT ![t].pc = "done", ![t].outcome = "empty"]
  /\ UNCHANGED <<kapp, ktok>>

\* the image arrived; _solve_captcha awaits the solver
JKSolve(t) ==
  /\ ktask[t].pc = "fetch_wait"
  /\ ktask' = [ktask EXCEPT ![t].pc = "solve_wait"]
  /\ UNCHANGED <<kapp, ktok>>

\* if not captcha_text: continue
JKEmptyText(t) ==
  /\ ktask[t].pc = "solve_wait"
  /\ ktask' = [ktask EXCEPT ![t].pc = "loop", ![t].attempt = ktask[t].attempt + 1]
  /\ UNCHANGED <<kapp, ktok>>

\* _validate_captcha: POST the form
JKValidate(t) ==
  /\ ktask[t].pc = "solve_wait"
  /\ ktask' = [ktask EXCEPT ![t].pc = "validate_wait"]
  /\ UNCHANGED <<kapp, ktok>>

\* resp.json() raised: return False, _app_token is not touched
JKNotJson(t) ==
  /\ ktask[t].pc = "validate_wait"
  /\ ktask' = [ktask EXCEPT ![t].pc = "loop", ![t].attempt = ktask[t].attempt + 1]
  /\ UNCHANGED <<kapp, ktok>>

\* captcha_status is not "Y": the token of the response is stored in the
\* instance all the same, the loop goes on
JKRejected(t) ==
  /\ ktask[t].pc = "validate_wait"
  /\ ktok' = ktok + 1
  /\ kapp' = [kapp EXCEPT ![Inst(t)] = ktok + 1]
  /\ ktask' = [ktask EXCEPT ![t].pc = "loop", ![t].attempt = ktask[t].attempt + 1,
                            ![t].recv = ktask[t].recv \cup {ktok + 1}]

\* captcha_status is "Y": the token is stored, the loop is left and
\* search_results_params(app_token=self._app_token) is built; get() then
\* suspends in the request delay
JKAccepted(t) ==
  /\ ktask[t].pc = "validate_wait"
  /\ ktok' = ktok + 1
  /\ kapp' = [kapp EXCEPT ![Inst(t)] = ktok + 1]
  /\ ktask' = [ktask EXCEPT ![t].pc = "results_delay",
                            ![t].recv = ktask[t].recv \cup {ktok + 1},
                            ![t].got = ktok + 1,
                            ![t].params = kapp'[Inst(t)]]

\* a results GET whose app_token is read from the instance when it leaves
JKResultsSend_ReadsField(t) ==
  /\ ktask[t].pc = "results_delay"
  /\ ktask' = [ktask EXCEPT ![t].pc = "results_wait", ![t].sent = kapp[Inst(t)]]
  /\ UNCHANGED <<kapp, ktok>>

\* the request delay is over: the results GET leaves with the params built
\* before it
JKResultsSend(t) ==
  /\ ktask[t].pc = "results_delay"
  /\ ktask' = [ktask EXCEPT ![t].pc = "results_wait", ![t].sent = ktask[t].params]
  /\ UNCHANGED <<kapp, ktok>>

\* the results page arrived: return parse_judgment_search(resp.text)
JKResults(t) ==
  /\ ktask[t].pc = "results_wait"
  /\ ktask' = [ktask EXCEPT ![t].pc = "done", ![t].outcome = "return"]
  /\ UNCHANGED <<kapp, ktok>>

\* the transport raises: nothing in search catches it
JKRaise(t) ==
  /\ ktask[t].pc \in {"init_wait", "fetch_wait", "validate_wait", "results_wait"}
  /\ ktask' = [ktask EXCEPT ![t].pc = "done", ![t].outcome = "raise"]
  /\ UNCHANGED <<kapp, ktok>>

\* one step of search t
JKStep(t) ==
  \/ JKCall(t) \/ JKInitDone(t) \/ JKFetch(t) \/ JKExhausted(t) \/ JKSolve(t)
  \/ JKEmptyText(t) \/ JKValidate(t) \/ JKNotJson(t) \/ JKRejected(t)
  \/ JKAccepted(t) \/ JKResultsSend(t) \/ JKResults(t) \/ JKRaise(t)

NextSearches ==
  /\ \E t \in Tasks : JKStep(t)
  /\ UNCHANGED <<cfg_max_retries, cvars, tvars, pvars, jvars, fvars, rvars,
                 kshared, kjar, ksrv, cfg_request_delay, know, ksent, portal>>

SpecSearches == InitSearches /\ [][NextSearches]_vars

\* ------------------- http.py, logical requests awaited concurrently in time
\* The frame of one logical request: its position in _request, the loop
\* variable attempt, and the time its asyncio.sleep is over.
IdleRequest == [pc |-> "idle", attempt |-> 0, wake |-> 0, outcome |-> "none"]

\* one RateLimitedClient, its request_delay and max_retries configured, and
\* two callers
InitRate ==
  /\ cfg_max_retries \in 1..MaxRetriesCfg
  /\ NewClient
  /\ NoFunction
  /\ NoRegistry
  /\ kshared = TRUE
  /\ kjar = [i \in Instances |-> 0] /\ ksrv = 0
  /\ ktask = [t \in Tasks |-> IdleRequest]
  /\ cfg_request_delay \in 1..MaxDelay
  /\ know = 0 /\ ksent = <<>>
  /\ kapp = [i \in Instances |-> 0] /\ ktok = 0
  /\ portal = NoPortal

\* a second passes
Tick ==
  /\ know < MaxTime
  /\ know' = know + 1
  /\ UNCHANGED <<ktask, ksent>>

\* get / post: _ensure_client(), then await asyncio.sleep(request_delay)
RCall(t) ==
  /\ ktask[t].pc = "idle"
  /\ ktask' = [ktask EXCEPT ![t].pc = "delay", ![t].wake = know + cfg_request_delay]
  /\ UNCHANGED <<know, ksent>>

\* the request delay is over: the first attempt of the loop is issued
RAfterDelay(t) ==
  /\ ktask[t].pc = "delay" /\ know >= ktask[t].wake
  /\ ktask[t].attempt < cfg_max_retries
  /\ ksent' = Append(ksent, know)
  /\ ktask' = [ktask EXCEPT ![t].pc = "request"]
  /\ UNCHANGED know

\* client.request succeeds and raise_for_status passes: return resp
ROk(t) ==
  /\ ktask[t].pc = "request"
  /\ ktask' = [ktask EXCEPT ![t].pc = "done", ![t].outcome = "return"]
  /\ UNCHANGED <<know, ksent>>

\* a caught failure: re-raise on the last attempt, else
\* await asyncio.sleep((attempt + 1) * 2)
RRetryableFail(t) ==
  /\ ktask[t].pc = "request"
  /\ IF ktask[t].attempt = cfg_max_retries - 1
     THEN ktask' = [ktask EXCEPT ![t].pc = "done", ![t].outcome = "raise"]
     ELSE ktask' = [ktask EXCEPT ![t].pc = "backoff",
                                 ![t].wake = know + (ktask[t].attempt + 1) * 2]
  /\ UNCHANGED <<know, ksent>>

\* a failure the except clause does not name leaves _request at once
RFatalFail(t) ==
  /\ ktask[t].pc = "request"
  /\ ktask' = [ktask EXCEPT ![t].pc = "done", ![t].outcome = "raise"]
  /\ UNCHANGED <<know, ksent>>

\* the backoff sleep is over: the next attempt of the loop is issued
RAfterBackoff(t) ==
  /\ ktask[t].pc = "backoff" /\ know >= ktask[t].wake
  /\ ksent' = Append(ksent, know)
  /\ ktask' = [ktask EXCEPT ![t].pc = "request", ![t].attempt = ktask[t].attempt + 1]
  /\ UNCHANGED know

\* one step of logical request t
RStep(t) ==
  \/ RCall(t) \/ RAfterDelay(t) \/ ROk(t) \/ RRetryableFail(t) \/ RFatalFail(t)
  \/ RAfterBackoff(t)

NextRate ==
  /\ Tick \/ \E t \in Tasks : RStep(t)
  /\ UNCHANGED <<cfg_max_retries, cvars, tvars, pvars, jvars, fvars, rvars,
                 kshared, kjar, ksrv, cfg_request_delay, kapp, ktok, portal>>

SpecRate == InitRate /\ [][NextRate]_vars

\* ------------------------------------------------------- sci/client.py
DigitChars == <<"0", "1", "2", "3", "4", "5", "6", "7", "8", "9">>

\* f"{n}" of a non-negative integer
RECURSIVE Dec(_)
Dec(n) == IF n < 10 THEN <<DigitChars[n + 1]>> ELSE Dec(n \div 10) \o <<DigitChars[(n % 10) + 1]>>

\* f"{n:02d}" of a non-negative integer
Pad2(n) == IF n < 10 THEN <<"0">> \o Dec(n) ELSE Dec(n)

\* search_by_year: the JBJfrom / JBJto fields of the form it posts; month 0
\* stands for None, which 'if month:' treats alike
SearchByYearForm(year, month) ==
  IF month # 0
  THEN [JBJfrom |-> <<"0", "1", "-">> \o Pad2(month) \o <<"-">> \o Dec(year),
        JBJto |-> <<"2", "8", "-">> \o Pad2(month) \o <<"-">> \o Dec(year)]
  ELSE [JBJfrom |-> <<"0", "1", "-", "0", "1", "-">> \o Dec(year),
        JBJto |-> <<"3", "1", "-", "1", "2", "-">> \o Dec(year)]

\* <<year, month>>: a common year and a leap year, no month and each month
YearInputs == {<<y, m>> : y \in (MaxYear - 1)..MaxYear, m \in 0..12}

ApplySearchByYear ==
  /\ fname = "search_by_year" /\ ~FnDone
  /\ fout' = Returned(<<SearchByYearForm(fin[1], fin[2])>>)
  /\ FnFrame

\* --------------------------------------------------------------- cli.py
\* the parameters of JudgmentSearchClient.search after self: search_text may
\* be passed by position, the others by keyword only; only search_text has
\* no default
SearchSignature ==
  [positional |-> <<"search_text">>,
   keyword_only |-> {"search_opt", "court_type", "max_captcha_attempts"},
   required |-> {"search_text"}]

\* the call of the judgments command: client.search(court, from_date=...,
\* to_date=..., judge_name=..., party_name=..., free_text=..., page=...)
JudgmentsCall ==
  [args |-> 1,
   kwargs |-> {"from_date", "to_date", "judge_name", "party_name", "free_text", "page"}]

\* Python's binding of a call's arguments to a signature's parameters
Bind(sig, call) ==
  LET byPosition == {sig.positional[i] : i \in 1..call.args \cap DOMAIN sig.positional}
      names == {sig.positional[i] : i \in DOMAIN sig.positional} \cup sig.keyword_only
  IN IF call.args > Len(sig.positional) THEN "TypeError"
     ELSE IF call.kwargs \ names # {} THEN "TypeError"
     ELSE IF call.kwargs \cap byPosition # {} THEN "TypeError"
     ELSE IF sig.required \ (byPosition \cup call.kwargs) # {} THEN "TypeError"
     ELSE "bound"

\* judgments(court_code, ...): an unknown court exits with status 1; otherwise
\* search is called and the command prints what it returned
ApplyCliJudgments ==
  /\ fname = "cli.judgments" /\ ~FnDone
  /\ IF LowerOf[fin] \notin DOMAIN ByCode THEN fout' = Raised("SystemExit")
     ELSE IF Bind(SearchSignature, JudgmentsCall) # "bound" THEN fout' = Raised("TypeError")
     ELSE \E b \in ResultBodies :
            fout' = Returned(<<IF JudgmentsOf[b] = <<>> THEN "No judgments found."
                               ELSE "Found">>)
  /\ FnFrame

\* the functions, each applied once to an argument drawn from its inputs
FnInputs ==
  (ListOps \X ListTexts)
  \cup ({"parse_case_status"} \X EnvelopeTexts)
  \cup (HtmlParsers \X HtmlTexts)
  \cup ({"total_pages"} \X PageInputs)
  \cup ({"parse_orders.row", "parse_cause_list.row"} \X LinkInputs)
  \cup ({"_extract_parties"} \X PartiesCells)
  \cup ({"search_by_year"} \X YearInputs)
  \cup ({"cli.judgments"} \X LookupArgs)

InitFn ==
  /\ cfg_max_retries = MaxRetriesCfg
  /\ NewClient /\ NoTasks /\ NoRegistry /\ NoMore
  /\ fout = NoOutcome
  /\ \E x \in FnInputs : fname = x[1] /\ fin = x[2]

NextFn ==
  \/ ApplyListBenches \/ ApplyListCaseTypes
  \/ ApplyParseCaseStatus \/ ApplyParseOrders \/ ApplyParseCauseList
  \/ ApplyParseJudgmentSearch \/ ApplyParseJudgmentList
  \/ ApplyTotalPages
  \/ ApplyOrdersRow \/ ApplyCauseListRow \/ ApplyExtractParties
  \/ ApplySearchByYear \/ ApplyCliJudgments

SpecFn == InitFn /\ [][NextFn]_vars

\* the steps of RateLimitedClient._request
Transport ==
  AfterDelay \/ HttpOk \/ HttpRetryableFail \/ HttpFatalFail \/ AfterBackoff

\* the steps of _post_with_captcha_retry
HCLoop ==
  \/ HCAttemptStart \/ HCExhausted \/ HCFetchCaptcha \/ HCSolveStart
  \/ HCSubmit \/ HCRejected \/ HCAccepted \/ HCTransportError

\* the steps of list_benches / list_case_types
HCList == HCListCall \/ HCListPost \/ HCListDone \/ HCListTransportError

Next == HCCall \/ HCLoop \/ HCParse \/ HCList \/ Transport \/ Finish

Spec == Init /\ [][Next]_vars

\* a RateLimitedClient used directly, one call at a time
NextHTTP == Enter \/ Close \/ HttpCall \/ HttpReturn \/ HttpRaise \/ Transport \/ Finish

SpecHTTP == Init /\ [][NextHTTP]_vars

\* a portal client on a transport of its own or on an injected one
NextPortal ==
  \/ OwnerEnter \/ OwnerClose \/ OwnerCall
  \/ PortalNew \/ PortalEnter \/ PortalCall \/ PortalExit
  \/ HttpReturn \/ HttpRaise \/ Transport \/ Finish

SpecPortal == InitPortal /\ [][NextPortal]_vars

\* the steps of JudgmentSearchClient.search
JSLoop ==
  \/ JSInitDone \/ JSFetchCaptcha \/ JSExhausted \/ JSSolveStart \/ JSEmptyText
  \/ JSValidate \/ JSValidateNotJson \/ JSValidateNotDict \/ JSValidateRejected
  \/ JSValidateAccepted \/ JSResults \/ JSTransportError

NextJS == JSCall \/ JSLoop \/ Transport \/ Finish

SpecJS == Init /\ [][NextJS]_vars

TypeOK ==
  /\ pc \in {"idle", "http", "list_init", "list_post", "loop", "init_session", "captcha_get", "solve", "post", "parse", "done",
            "js_init", "js_loop", "js_captcha_get", "js_solve", "js_validate", "js_results"}
  /\ app_token \in {"", "tokA", "tokB"}
  /\ max_captcha_attempts \in 0..MaxCaptchaAttempts
  /\ tpc \in {"idle", "sleep", "request", "backoff", "returned", "raised"}
  /\ attempt \in 0..CaptchaMaxRetries
  /\ jar \in 0..(MaxSessions + 1)

\* ------------------------------------------------------------- properties
TransportErrors == RetryableErrors \cup FatalErrors \cup {"RuntimeError"}
CaseStatusOps == {"case_status", "case_status_by_party"}
StepSeq == <<"init", "captcha", "solve", "post">>

\* steps _request has left at most, and a strict bound on them
TRank ==
  CASE tpc = "sleep" -> 2 * cfg_max_retries + 1
    [] tpc = "request" -> 2 * (cfg_max_retries - tattempt)
    [] tpc = "backoff" -> 2 * (cfg_max_retries - tattempt) - 1
    [] OTHER -> 0
TBound == 2 * cfg_max_retries + 2

PcRank ==
  CASE pc = "loop" -> 5 [] pc = "init_session" -> 4 [] pc = "captcha_get" -> 3
    [] pc = "solve" -> 2 [] pc = "post" -> 1 [] OTHER -> 0

\* a variant of the challenge loop: it is a natural number and every step of
\* a running operation decreases it
HCRank ==
  IF pc \in {"idle", "done"} THEN 0
  ELSE (CaptchaMaxRetries - attempt) * 6 * TBound + PcRank * TBound + TRank

HCRunning == pc \in {"loop", "init_session", "captcha_get", "solve", "post", "parse"}

\* C1: when every submit response of a challenge-gated HC operation carries
\* the rejection marker and the transport raised nothing, the operation ends
\* with CaptchaError after exactly 3 submits; a 4th submit is never issued;
\* and the operation terminates: while it runs some step is always possible
\* (parsing is a total function) and every step decreases a natural-number
\* variant.
C1_State ==
  /\ submits <= 3 /\ Len(submitSolves) <= 3
  /\ (pc = "done" /\ op \in HCOps /\ rejects = submits /\ outcome.exc \notin TransportErrors)
       => (submits = 3 /\ outcome.kind = "raise" /\ outcome.exc = "CaptchaError")
  /\ HCRunning => (HCRank \in Nat /\ (pc = "parse" \/ ENABLED (HCLoop \/ Transport)))

C1_ThreeRejectionsThenCaptchaError ==
  [][C1_State /\ C1_State' /\ (HCRunning => HCRank' < HCRank)]_vars

C1_Witness ==
  pc = "done" /\ rejects = 3 /\ submits = 3 /\ outcome.exc = "CaptchaError"

\* the URL a protocol step requests
UrlOf(step) ==
  CASE step = "init" -> "MAIN_PAGE_URL"
    [] step = "captcha" -> "CAPTCHA_IMAGE_URL"
    [] step = "post" -> SubmitUrl(op)
    [] OTHER -> ""

C2_State ==
  /\ op \in HCOps =>
       /\ Len(steps) <= Len(StepSeq)
       /\ steps = SubSeq(StepSeq, 1, Len(steps))
       /\ tpc # "idle" => (steps # <<>> /\ treq.url = UrlOf(Last(steps)))
  /\ \A i, j \in DOMAIN submitSolves : i # j => submitSolves[i] # submitSolves[j]
  /\ pc = "post" =>
       /\ Last(submitSolves) = solves /\ captchaId = solves
       /\ treq.method = "POST" /\ treq.form.captcha = captcha

\* C2: every attempt of _post_with_captcha_retry, first or retry, starts its
\* steps in the order session-init GET, challenge GET, solve, submit POST; a
\* step starts only when the request of the step before it has returned; each
\* post call submits the text of the solver invocation of its own attempt, so
\* no invocation's text is posted by two post calls.
C2_StepsInOrderFreshSolve ==
  [][C2_State /\ C2_State' /\ (steps' # steps => tpc \in {"idle", "returned"})]_vars

C2_Witness ==
  attempt = 1 /\ pc = "post" /\ tpc = "returned" /\ steps = StepSeq
  /\ submitSolves = <<1, 2>>

\* C3: after a rejection no request of the operation (session-init, challenge
\* fetch, submit) carries the session cookie the rejected submit was sent with.
C3_RetryCarriesNoRejectedSession ==
  rejCookie > 0 => rejCookie \notin carried

\* C4: case_status and case_status_by_party end with CaptchaError only after
\* 3 submits that the loop each classified as a rejection.
C4_CaptchaErrorOnlyAfterBound ==
  (pc = "done" /\ op \in CaseStatusOps /\ outcome.exc = "CaptchaError")
    => (submits = CaptchaMaxRetries /\ rejects = CaptchaMaxRetries)

\* a JSON envelope with a non-empty Error field and no rejection marker,
\* neither the loop's nor the parser's
ErrorEnvelope(raw) ==
  LET text == LStrip(Strip(raw), {BOM})
      err == JsonGet(text, QError)
      con == JsonGet(text, QCon)
  IN /\ StartsWith(text, "{") /\ JsonLoads(text) # BadMembers
     /\ IsStrValue(err) /\ ~IsEmptyStr(err[1])
     /\ ~InvalidCaptchaMarker(raw)
     /\ ~(IsStrValue(con) /\ LowerHasCaptcha(con[1]))

\* C5: when the submit response is a JSON envelope with a non-empty Error
\* field and no rejection marker, case_status / case_status_by_party end with
\* ServerError, and that response was the last request of the operation.
C5_ServerErrorAtOnce ==
  (pc = "done" /\ op \in CaseStatusOps /\ submits > rejects /\ ErrorEnvelope(resp))
    => (outcome.kind = "raise" /\ outcome.exc = "ServerError"
        /\ submits = rejects + 1 /\ Last(steps) = "post")

\* C6: while _request retries a failed HTTP attempt, the protocol's position,
\* its attempt counter, its steps and the request itself stay as they are;
\* once _request has raised, the next step ends the operation with that very
\* exception, without another HTTP attempt or challenge attempt.
C6_TransportFailuresInvisible ==
  [][ /\ (tpc \in {"sleep", "request", "backoff"} /\ tpc' \in {"request", "backoff", "returned"})
          => UNCHANGED <<pc, attempt, steps, captcha, solves, submits, treq>>
      /\ tpc = "raised"
          => (pc' = "done" /\ outcome' = Raised(terror) /\ attempt' = attempt
              /\ tsent' = tsent /\ steps' = steps /\ submits' = submits)
    ]_vars

C6_Witness ==
  pc = "post" /\ tpc = "returned" /\ tsent = 2 /\ last_error = "ReadTimeout"
  /\ attempt = 0 /\ steps = StepSeq /\ submits = 0

\* C7: when every one of the max_captcha_attempts attempts of a search was
\* rejected by the validation endpoint, search ends by raising an error; it
\* does not return a result value.
C7_ExhaustionRaises ==
  (pc = "done" /\ op = "search" /\ max_captcha_attempts > 0
   /\ rejects = max_captcha_attempts)
    => outcome.kind = "raise"

\* C8: in a search, a challenge fetch that comes after a validation is
\* directly preceded by a session-init GET of the landing page.
C8_SessionInitBeforeRetryFetch ==
  op = "search" =>
    \A i \in DOMAIN steps :
      (steps[i] = "captcha" /\ \E j \in 1..(i - 1) : steps[j] = "validate")
        => steps[i - 1] = "init"

\* C9: a results GET is issued only as the step that follows a validation
\* POST of the same search whose response carried captcha_status "Y"; its
\* parameters carry the app_token of that response, the captcha text that
\* the validation request carried, and the search's text and option. A search
\* that ends without an accepted validation has issued no results GET.
C9_ResultsOnlyAfterAcceptedValidation ==
  [][ /\ (treq'.url = "SEARCH_RESULTS_URL" /\ treq.url # "SEARCH_RESULTS_URL")
          => /\ pc = "js_validate" /\ tpc = "returned"
             /\ treq.url = "CHECK_CAPTCHA_URL" /\ treq.method = "POST"
             /\ ValidationOf[wire.text].captcha_status = "Y"
             /\ treq'.method = "GET"
             /\ treq'.form.app_token = ValidationOf[wire.text].app_token
             /\ treq'.form.captcha = treq.form.captcha
             /\ treq'.form.captcha # ""
             /\ treq'.form.text = search_text
             /\ treq'.form.search_opt = search_opt
      /\ (pc' = "done" /\ op' = "search" /\ acceptTok' = "none")
          => (\A i \in DOMAIN steps' : steps'[i] # "results")
      /\ (\E i \in DOMAIN steps' : steps'[i] = "results")
          => (treq'.url = "SEARCH_RESULTS_URL" /\ steps'[Len(steps') - 1] = "validate")
    ]_vars

\* a rejected validation that left tokB behind, then an accepted one with tokA
C9_Witness ==
  pc = "js_results" /\ attempt = 1 /\ rejects = 1 /\ submits = 2
  /\ treq.form.app_token = "tokA" /\ treq.form.captcha = "ab12"
  /\ acceptTok = "tokA" /\ acceptText = "ab12"

C10_State ==
  tpc = "returned" =>
    (tresp = wire /\ tsent = tattempt + 1 /\ tsent >= 1 /\ tsent <= cfg_max_retries)

\* C10: when an HTTP attempt of a logical request succeeds, _request returns
\* the response of that attempt, it was one of the first max_retries attempts,
\* and no further attempt of the request follows.
C10_FirstSuccessReturned ==
  [][C10_State /\ C10_State' /\ (tpc = "returned" => tsent' \in {tsent, 0})]_vars

\* 500 then 200 under max_retries = 2
C10_Witness ==
  tpc = "returned" /\ cfg_max_retries = 2 /\ tsent = 2
  /\ last_error = "HTTPStatusError" /\ tresp = wire

\* ------------------------------------------- properties of http.py
C11_State ==
  /\ tsent <= cfg_max_retries
  /\ (tpc = "raised" /\ terror \in RetryableErrors)
       => (cfg_max_retries >= 1 /\ tsent = cfg_max_retries /\ Len(waits) = tsent - 1)

\* C11: a logical request never makes more than max_retries HTTP attempts;
\* when _request raises a retryable failure, every one of its attempts failed
\* retryably and exactly max_retries of them were made; and the max_retries-th
\* attempt, when it does not succeed, ends the call in failure.
C11_ExactlyMaxRetriesAttempts ==
  [][ /\ C11_State /\ C11_State'
      /\ (tsent' = tsent + 1 /\ tsent' = cfg_max_retries /\ tpc' # "returned")
           => tpc' = "raised"
      /\ (pc = "http" /\ tpc = "raised") => (pc' = "done" /\ outcome'.kind = "raise")
    ]_vars

\* three connection errors under max_retries = 3
C11_Witness ==
  pc = "http" /\ tpc = "raised" /\ cfg_max_retries = 3 /\ tsent = 3
  /\ terror = "ConnectError" /\ waits = <<2, 4>>

\* C12: a call that fails because its retries are exhausted reaches the caller
\* as the wrapping transport error (raised from the last failure), never as
\* the HTTP library's own exception.
C12_ExhaustionWrapsLastCause ==
  (pc = "done" /\ op \in HttpOps /\ outcome.kind = "raise"
   /\ outcome.exc \notin FatalErrors /\ cfg_max_retries >= 1)
    => outcome.exc = "RuntimeError"

\* C13: a connection error, a timeout of any kind or an HTTP error status
\* reaches the caller only after max_retries attempts were made.
C13_AllFailuresRetried ==
  (tpc = "raised" /\ terror \in (RetryableErrors \cup FatalErrors))
    => tsent = cfg_max_retries

C14_State ==
  /\ tpc # "idle" => delays = 1
  /\ tpc = "sleep" => (tsent = 0 /\ tattempt = 0 /\ waits = <<>>)
  /\ tsent >= 1 => delays = 1

\* C14: every logical request, whatever its method and URL, sleeps
\* request_delay once, before its first HTTP attempt: the sleep starts when
\* the request starts, no attempt is made during it, and no later step of
\* the same request (a retry included) sleeps it again.
C14_OneDelayPerLogicalRequest ==
  [][ /\ C14_State /\ C14_State'
      /\ (delays' # delays /\ delays' # 0)
           => (tpc \in {"idle", "returned"} /\ tpc' = "sleep" /\ tsent' = 0 /\ delays' = 1)
      /\ tsent' = tsent + 1 => (delays = 1 /\ delays' = 1 /\ tpc = "request")
    ]_vars

\* a retry attempt of a get_text on the judgments host, about to be sent
C14_Witness ==
  pc = "http" /\ op = "get_text" /\ treq.url = "SEARCH_RESULTS_URL"
  /\ tpc = "request" /\ tattempt = 1 /\ tsent = 1 /\ delays = 1

C16_CloseIdempotent ==
  [][ /\ closeCalls' = closeCalls + 1
           => /\ pool' = "none"
              /\ pool = "none" => UNCHANGED <<cfg_max_retries, released, tvars, pvars, jvars>>
              /\ pool = "open" => released' = released + 1
              /\ outcome' = outcome /\ pc' = pc
      /\ released' # released
           => (pool = "open" /\ pool' = "none" /\ released' = released + 1
               /\ closeCalls' = closeCalls + 1)
    ]_vars

\* a used client closed three times: one release
C16_Witness ==
  pc = "idle" /\ calls = 1 /\ closeCalls = 3 /\ released = 1 /\ pool = "none"

\* C17: list_benches and list_case_types start a session-init GET, then,
\* once it has returned, one POST, and nothing else: a call that returns has
\* made exactly these two logical requests in this order; the challenge image
\* is never requested and the solver is never invoked.
C17_ListOpsInitThenOnePost ==
  op \in ListOps =>
    /\ steps \in {<<"init">>, <<"init", "post">>}
    /\ solves = 0 /\ captcha = "" /\ treq.url # "CAPTCHA_IMAGE_URL"
    /\ pc = "list_init" => (steps = <<"init">> /\ treq.method = "GET"
                            /\ treq.url = "MAIN_PAGE_URL")
    /\ pc = "list_post" => (steps = <<"init", "post">> /\ treq.method = "POST"
                            /\ treq.url \in {"INDEX_QRY_URL", "FILL_CASE_TYPE_URL"})
    /\ (pc = "done" /\ outcome.kind = "return") => steps = <<"init", "post">>
    /\ (pc = "done" /\ steps = <<"init">>) => outcome.kind = "raise"

\* list_benches returned the one bench of the plain response
C17_Witness ==
  pc = "done" /\ op = "list_benches" /\ steps = <<"init", "post">>
  /\ outcome.kind = "return" /\ Len(outcome.items) = 1 /\ solves = 0

\* C18: a case_status / case_status_by_party call that returns hands back
\* the records parse_case_status makes of the accepted response text, as many
\* and in the same order, each with court_name set to the queried court's
\* name and every other field as parsed.
C18_CourtNameBackFilled ==
  (pc = "done" /\ op \in CaseStatusOps /\ outcome.kind = "return")
    => /\ CaseStatusOf[resp].kind = "return"
       /\ Len(outcome.items) = Len(CaseStatusOf[resp].items)
       /\ \A i \in DOMAIN outcome.items :
            /\ outcome.items[i].court_name = court
            /\ outcome.items[i] = [CaseStatusOf[resp].items[i] EXCEPT !.court_name = court]

\* the two records of the JSON envelope, returned for the Bombay High Court
C18_Witness ==
  pc = "done" /\ op = "case_status_by_party" /\ court = "Bombay High Court"
  /\ resp = BodyRecords /\ outcome.kind = "return" /\ Len(outcome.items) = 2
  /\ outcome.items[2].court_name = "Bombay High Court"

\* C19: while a submit POST of a challenge-gated operation is under way (its
\* HTTP retries included), its form carries the discriminator of the operation
\* (CScaseNumber, CSpartyName, COCaseNumber, CLcauselist) and, as captcha, the
\* text the solver returned in this attempt, for the challenge fetched last.
C19_DiscriminatorAndCaptcha ==
  (pc = "post" /\ op \in HCOps)
    => /\ treq.method = "POST"
       /\ treq.form.caseStatusSearchType =
            (CASE op = "case_status" -> "CScaseNumber"
               [] op = "case_status_by_party" -> "CSpartyName"
               [] op = "court_orders" -> "COCaseNumber"
               [] op = "cause_list" -> "CLcauselist")
       /\ treq.form.captcha = captcha
       /\ captchaId = solves /\ solves = attempt + 1
       /\ Last(steps) = "post" /\ steps[Len(steps) - 1] = "solve"

\* the retry of a cause_list, its POST being sent a second time
C19_Witness ==
  pc = "post" /\ op = "cause_list" /\ attempt = 1 /\ tpc = "request" /\ tsent = 1
  /\ treq.form = [caseStatusSearchType |-> "CLcauselist", captcha |-> "ab12"]

\* C20: the number of rejected submits after which a challenge-gated
\* operation gives up with CaptchaError is the bound the caller configured.
C20_BoundIsConfigured ==
  (pc = "done" /\ op \in HCOps /\ outcome.exc = "CaptchaError" /\ rejects = submits)
    => rejects = cfg_max_retries

\* ------------------------------------------------------------ C21 and C30
Submitted(t) == ktask[t].submit # NoSubmit

\* the submit of call t carries the cookie of t's own session-init and the
\* solution t worked out for the challenge fetched under that session
OwnSubmit(t) ==
  /\ ktask[t].submit.cookie = ktask[t].init
  /\ ktask[t].submit.captcha = [by |-> t, sess |-> ktask[t].init]

\* a step of one call leaves the other call and the other instance's jar alone
OneClientMoves ==
  \E t \in Tasks : \A u \in Tasks \ {t} : ktask'[u] = ktask[u] /\ kjar'[u] = kjar[u]

\* C21: two calls on two client instances, each owning its transport: under
\* every interleaving each submit carries the cookie and the solution of that
\* client's own session-init and challenge fetch, and a step of one client
\* changes nothing of the other.
C21_SeparateInstancesIsolated ==
  [][~kshared => /\ \A t \in Tasks : Submitted(t)' => OwnSubmit(t)'
                 /\ OneClientMoves]_vars

C21_Witness ==
  /\ ~kshared
  /\ \A t \in Tasks : ktask[t].pc = "submit_wait" /\ OwnSubmit(t)
  /\ ktask[1].submit.cookie # ktask[2].submit.cookie
  /\ ktask[2].attempt = 1

\* the submit of call t carries a solution obtained under another session than
\* the one whose cookie it sends
StaleSubmit(t) == Submitted(t) /\ ktask[t].submit.cookie # ktask[t].submit.captcha.sess

\* C30: two calls on one HCServicesClient are not isolated: a submit can carry
\* a solution obtained under a session that is no longer current. It happens
\* only on the shared instance, the cookie sent is then that of a session
\* issued after the one the challenge was fetched under, and the solution is
\* still the call's own.
C30_SharedInstanceNotIsolated ==
  \A t \in Tasks :
    StaleSubmit(t) => /\ kshared
                      /\ ktask[t].submit.cookie > ktask[t].submit.captcha.sess
                      /\ ktask[t].submit.captcha.by = t

\* call 2's session-init is answered between call 1's challenge fetch and
\* call 1's submit
C30_Witness ==
  /\ kshared
  /\ ktask[1].pc = "submit_wait" /\ StaleSubmit(1)
  /\ ktask[1].init = ktask[1].submit.captcha.sess
  /\ ktask[2].init = ktask[1].submit.cookie

\* ------------------------------------------------------------ C22 and C23
ListFn == fname \in ListOps /\ FnDone

\* the text has neither whitespace nor a byte-order mark
Unpadded(text) == \A i \in DOMAIN text : text[i] \notin {WS, BOM}

HasTilde(entry) == \E i \in DOMAIN entry : entry[i] = "~"
FirstTilde(entry) ==
  CHOOSE i \in DOMAIN entry : entry[i] = "~" /\ \A j \in 1..(i - 1) : entry[j] # "~"
CodeOf(entry) == SubSeq(entry, 1, FirstTilde(entry) - 1)
NameOf(entry) == SubSeq(entry, FirstTilde(entry) + 1, Len(entry))

\* a code~name entry that is neither the zero sentinel nor a placeholder
WellFormed(entry) ==
  /\ HasTilde(entry)
  /\ CodeOf(entry) \notin {<<>>, <<"0">>}
  /\ NameOf(entry) # <<>>
  /\ \A i \in DOMAIN NameOf(entry) : NameOf(entry)[i] # "Sel"

\* the mapping a listing stands for: its well-formed entries, the last one of
\* a code winning
ExpectedMapping(text) ==
  LET es == SplitOn(text, "#")
      last == {i \in DOMAIN es :
                 /\ WellFormed(es[i])
                 /\ \A j \in (i + 1)..Len(es) :
                      WellFormed(es[j]) => CodeOf(es[j]) # CodeOf(es[i])}
  IN {[code |-> CodeOf(es[i]), name |-> NameOf(es[i])] : i \in last}

C23_NoLeadingBom ==
  ListFn =>
    /\ \A i \in DOMAIN fout.items :
         /\ ~StartsWith(fout.items[i].code, BOM)
         /\ ~StartsWith(fout.items[i].name, BOM)
    /\ ParseBenches(fin) = ParseCaseTypes(fin)

\* ------------------------------------------------------------ C24 and C25
\* the text is a JSON object once stripped
IsEnvelope(raw) == JsonLoads(LStrip(Strip(raw), {BOM})) # BadMembers

EnvelopeGet(raw, key) == JsonGet(LStrip(Strip(raw), {BOM}), key)

\* con is a string that names a captcha failure
NamesCaptchaFailure(raw) ==
  IsStrValue(EnvelopeGet(raw, QCon)) /\ LowerHasCaptcha(EnvelopeGet(raw, QCon)[1])

\* the records the envelope carries in con
EnvelopeRecords(raw) ==
  LET con == EnvelopeGet(raw, QCon) IN
    IF IsListValue(con) /\ Len(con) > 2 THEN InnerRecords(con[2]) ELSE <<>>

\* what the claim's order of decisions gives for an envelope
EnvelopeDecision(raw) ==
  IF NamesCaptchaFailure(raw) THEN Raised("CaptchaError")
  ELSE IF ~Falsy(EnvelopeGet(raw, QError)) THEN Raised("ServerError")
  ELSE Returned(MapRecords(EnvelopeRecords(raw)))

\* C24: for a JSON envelope parse_case_status raises CaptchaError when con is
\* a string naming a captcha failure, otherwise ServerError when Error is
\* non-empty, otherwise returns one CaseInfo per inner record in order (the
\* empty list for {"con":[],"totRecords":"0","Error":""}).
C24_EnvelopeDecidedInOrder ==
  (fname = "parse_case_status" /\ FnDone /\ IsEnvelope(fin)) =>
    fout = EnvelopeDecision(fin)

HasTable(text) == \E i \in DOMAIN text : LowerHasTable(text[i])

\* the structure the parser looks for is not in the text: no table for the
\* parsers of HTML pages; for parse_case_status no table either, and no
\* envelope or one that names no captcha failure, no error and no record
StructureAbsent(fn, text) ==
  /\ ~HasTable(text)
  /\ fn = "parse_case_status" /\ IsEnvelope(text) =>
       /\ ~NamesCaptchaFailure(text)
       /\ Falsy(EnvelopeGet(text, QError))
       /\ EnvelopeRecords(text) = <<>>

\* C25: every parser returns an empty result and raises nothing for an input
\* in which the expected structure is absent: text that is not JSON,
\* malformed JSON that begins with '{', an envelope whose totRecords is
\* missing, null or not a number, HTML without a table.
C25_AbsentStructureGivesEmpty ==
  (fname \in Parsers /\ FnDone /\ StructureAbsent(fname, fin)) =>
    fout = Returned(<<>>)

\* -------------------------------------------------------------------- C26
\* the least number of pages of the given size that hold n items
Ceil(n, size) == CHOOSE k \in 0..n : k * size >= n /\ \A j \in 0..(k - 1) : j * size < n

\* C26: total_pages is ceil(total_count / page_size) for every page_size > 0
\* and every total_count >= 0, and 0 when page_size is 0.
C26_TotalPagesIsCeiling ==
  (fname = "total_pages" /\ FnDone) =>
    fout = Returned(<<IF fin[2] = 0 THEN 0 ELSE Ceil(fin[1], fin[2])>>)

C26_Witness ==
  /\ fname = "total_pages" /\ FnDone
  /\ fin = <<11, 5>> /\ fout.items = <<3>>

\* ------------------------------------------------------------ C27 and C28
\* the URL names its scheme and host
IsAbsoluteUrl(url) ==
  /\ Len(url) >= 3 /\ url[1] = "http"
  /\ \/ url[2] = "://" /\ IsWord(url[3]) /\ url[3] # "/"
     \/ Len(url) >= 4 /\ url[2] = "s" /\ url[3] = "://" /\ IsWord(url[4]) /\ url[4] # "/"

\* C27: with a non-empty base_url every non-empty pdf_url of parse_orders and
\* of parse_cause_list is absolute: an absolute href is returned unchanged
\* and a relative one, with or without a leading '/', comes back under the
\* base.
C27_PdfUrlAbsolute ==
  (fname \in {"parse_orders.row", "parse_cause_list.row"} /\ FnDone
     /\ fin[1] # <<>> /\ fout.items[1] # <<>>) =>
    /\ IsAbsoluteUrl(fout.items[1])
    /\ IF IsAbsoluteUrl(fin[2]) THEN fout.items[1] = fin[2]
       ELSE /\ Len(fout.items[1]) > Len(fin[1])
            /\ SubSeq(fout.items[1], 1, Len(fin[1])) = fin[1]

\* the data rows of the first table that have at least 4 cells
DataRows(html) ==
  LET rows == TableRows(html) IN {i \in 2..Len(rows) : Cols(rows[i]) >= 4}

\* C28: a parties cell without two strong elements and of the form 'P vs R'
\* or 'P vs. R', in any letter case, gives petitioner P and respondent R with
\* nothing of the separator left in either; the legacy table parser makes
\* no record of the header row or of a row with fewer than 4 cells.
C28_PartiesSplitOnVs ==
  /\ (fname = "_extract_parties" /\ FnDone) =>
       \A p \in Petitioners, r \in Respondents, sep \in Separators :
         fin = <<<<>>, PartiesText(p, sep, r)>> => fout.items = <<p, r>>
  /\ (fname = "parse_case_status" /\ FnDone /\ HasTable(fin)) =>
       /\ fout.kind = "return"
       /\ Len(fout.items) = Cardinality(DataRows(fin))

RaisedCause == IF terror = "RuntimeError" THEN last_error ELSE terror

\* C33: every logical request makes at least one HTTP attempt, whatever
\* max_retries is configured to (0 included), and a failure it raises has the
\* error of its last attempt as its cause.
C33_AlwaysOneAttemptAndCause ==
  (pc = "done" /\ op \in HttpOps)
    => /\ tsent >= 1
       /\ outcome.kind = "raise"
            => RaisedCause \in (RetryableErrors \cup FatalErrors)

\* without a pool there is no cookie jar, and _request runs on an open pool
C35_State ==
  /\ pool = "none" => jar = 0
  /\ tpc \in {"sleep", "request", "backoff"} => pool = "open"

\* C35: after close() (or scope exit) of a RateLimitedClient a later
\* get / post on the same instance enters _request as on a new client: it
\* creates a new pool whose cookie jar is empty, the jar is afterwards filled
\* only by sessions the portal issues anew, and the pool stays open until
\* close is called again.
C35_ReopensAfterClose ==
  [][ /\ C35_State /\ C35_State'
      /\ (pc = "idle" /\ pc' = "http" /\ pool = "none")
           => (pool' = "open" /\ jar' = 0 /\ tpc' = "sleep" /\ released' = released)
      /\ (jar' # jar /\ jar' # 0)
           => (tpc = "request" /\ tpc' = "returned" /\ jar' = srvSeq + 1)
      /\ (pool = "open" /\ pool' # "open")
           => (closeCalls' = closeCalls + 1 /\ released' = released + 1)
    ]_vars

\* a session, a close, and a second call that returned on a new pool with
\* the session the portal issued to it
C35_Witness ==
  /\ released = 1 /\ pc = "done" /\ op \in HttpOps /\ outcome.kind = "return"
  /\ pool = "open" /\ jar = 2 /\ srvSeq = 2

\* ------------------------------ further properties of judgments/client.py
\* challenge fetches the search has started
Fetches == Cardinality({i \in DOMAIN steps : steps[i] = "captcha"})

C36_State ==
  op = "search"
    => /\ Fetches <= max_captcha_attempts
       /\ Len(submitSolves) <= max_captcha_attempts
       /\ submits <= Len(submitSolves)

\* C36: search fetches at most max_captcha_attempts challenges and sends at
\* most max_captcha_attempts validation POSTs; an attempt whose solver text is
\* empty uses up one attempt and sends no validation POST (a POST carries a
\* non-empty text); a validation response that is not JSON is a rejection:
\* the attempt is used up and the loop goes on without a results GET.
C36_AttemptsBounded ==
  [][ /\ C36_State /\ C36_State'
      /\ (pc = "js_solve" /\ pc' = "js_loop")
           => (captcha' = "" /\ attempt' = attempt + 1 /\ tpc' = "idle"
               /\ submitSolves' = submitSolves /\ tsent' = tsent)
      /\ (pc = "js_solve" /\ pc' = "js_validate")
           => (captcha' # "" /\ treq'.form.captcha = captcha' /\ attempt' = attempt)
      /\ (pc = "js_validate" /\ tpc = "returned" /\ ValidationOf[tresp.text].json = "bad")
           => (pc' = "js_loop" /\ attempt' = attempt + 1 /\ rejects' = rejects + 1
               /\ tpc' = "idle")
    ]_vars

\* two attempts allowed: one with an empty solver text, one whose validation
\* response is not JSON; the search returns the empty result
C36_Witness ==
  /\ op = "search" /\ pc = "done" /\ outcome = Returned(<<>>)
  /\ max_captcha_attempts = 2 /\ attempt = 2 /\ Fetches = 2
  /\ Len(submitSolves) = 1 /\ rejects = 1 /\ captcha = ""
  /\ ValidationOf[resp.text].json = "bad"

\* C37: the validation POST and the results GET of one search carry the
\* search_text and the search_opt the caller chose, for each of PHRASE, ANY
\* and ALL.
C37_ValidationCarriesCallerOption ==
  /\ (op = "search" /\ pc = "js_validate")
       => (treq.form.search_text = search_text /\ treq.form.search_opt = search_opt)
  /\ (op = "search" /\ pc = "js_results")
       => (treq.form.text = search_text /\ treq.form.search_opt = search_opt)

\* ------------------------------------------ properties of sci/client.py
\* the number a string of decimal digits denotes
RECURSIVE DecValue(_)
DecValue(t) ==
  IF t = <<>> THEN 0
  ELSE 10 * DecValue(SubSeq(t, 1, Len(t) - 1))
       + (CHOOSE v \in 0..9 : DigitChars[v + 1] = t[Len(t)])

\* day, month and year of a DD-MM-YYYY text
DateOf(t) ==
  [day |-> DecValue(SubSeq(t, 1, 2)), month |-> DecValue(SubSeq(t, 4, 5)),
   year |-> DecValue(SubSeq(t, 7, Len(t)))]

IsLeap(y) == y % 4 = 0 /\ (y % 100 # 0 \/ y % 400 = 0)

DaysInMonth(y, m) ==
  CASE m = 2 -> IF IsLeap(y) THEN 29 ELSE 28
    [] m \in {4, 6, 9, 11} -> 30
    [] OTHER -> 31

\* C38: search_by_year(year, month) with month in 1..12 submits a range
\* JBJfrom..JBJto from the first to the last day of that month; with no
\* month it submits 1 January to 31 December of the year.
C38_RangeCoversMonth ==
  (fname = "search_by_year" /\ FnDone)
    => LET from == DateOf(fout.items[1].JBJfrom)
           to == DateOf(fout.items[1].JBJto)
           y == fin[1]
           m == fin[2]
       IN IF m \in 1..12
          THEN /\ from = [day |-> 1, month |-> m, year |-> y]
               /\ to = [day |-> DaysInMonth(y, m), month |-> m, year |-> y]
          ELSE /\ from = [day |-> 1, month |-> 1, year |-> y]
               /\ to = [day |-> 31, month |-> 12, year |-> y]

\* --------------------------------------------------- properties of cli.py
\* C39: the judgments command, given a known court code, calls
\* JudgmentSearchClient.search with arguments the operation accepts: it ends
\* by printing the results or 'No judgments found.', never with an argument
\* error.
C39_JudgmentsCallAccepted ==
  (fname = "cli.judgments" /\ FnDone /\ LowerOf[fin] \in DOMAIN ByCode)
    => /\ fout.kind = "return"
       /\ fout.items[1] \in {"Found", "No judgments found."}

\* ------------------------- properties of two concurrent searches
\* C31: the app_token a search sends on its results GET is the one returned
\* by the validation response that accepted that search, also when two
\* searches run concurrently on one client instance: no search sends a token
\* that another search received.
C31_OwnTokenSent ==
  \A t \in Tasks :
    /\ ktask[t].pc \in {"results_wait"} => ktask[t].sent # 0
    /\ ktask[t].sent # 0
         => /\ ktask[t].sent = ktask[t].got
            /\ \A u \in Tasks \ {t} : ktask[t].sent \notin ktask[u].recv

\* on one instance: search 1 was accepted, search 2's validation response then
\* replaced the instance's token, and search 1's results GET left with its own
C31_Witness ==
  /\ kshared /\ ktask[1].pc = "results_wait"
  /\ ktask[1].sent = ktask[1].got
  /\ kapp[1] # ktask[1].sent /\ kapp[1] \in ktask[2].recv

\* ------------------------------- properties of requests in time
\* C32: any two HTTP attempts of one RateLimitedClient are at least
\* request_delay apart in time, also when several logical requests are awaited
\* concurrently and when the later attempt is a backoff retry.
C32_AttemptsSpaced ==
  \A i, j \in DOMAIN ksent :
    i < j => ksent[j] - ksent[i] >= cfg_request_delay

\* ------------------------------ properties of the portal clients' scope
\* an injected transport can be used after the portal client's exit
C34_State ==
  (portal.scope = "exited" /\ ~portal.owns_http /\ pc = "idle" /\ calls < MaxCalls)
    => ENABLED OwnerCall

\* C34: a portal client holds _owns_http exactly when it created the
\* transport itself; on scope exit it closes the transport if and only if it
\* owns it; an injected transport is left as it is, pool and cookies
\* unchanged, and stays usable after the exit.
C34_ClosesOnlyOwnTransport ==
  [][ /\ C34_State
      /\ (portal.scope = "none" /\ portal'.scope = "new" /\ portal'.owns_http)
           => (pool = "none" /\ released = 0 /\ closeCalls = 0)
      /\ (portal.scope = "entered" /\ portal'.scope = "exited")
           => IF portal.owns_http
              THEN /\ pool = "open" /\ pool' = "none" /\ jar' = 0
                   /\ released' = released + 1 /\ closeCalls' = closeCalls + 1
              ELSE UNCHANGED <<pool, jar, released, closeCalls, srvSeq>>
    ]_vars

\* a session was established through the portal client on an injected
\* transport; after the exit a direct request left with that session's cookie
\* and returned
C34_Witness ==
  /\ portal.scope = "exited" /\ ~portal.owns_http
  /\ pc = "done" /\ outcome.kind = "return" /\ calls = 1
  /\ pool = "open" /\ released = 0 /\ lastCookie = 1 /\ jar = 1
====
